---- MODULE Spec2Model ----
(***************************************************************************)
(* Model of the student profiling and personalization engine               *)
(* (src/ml-models/personalization/student_profiler.py) and of the question *)
(* analysis and strategy selection of the doubt resolver                   *)
(* (src/ml-models/doubt_clearing/doubt_resolver.py).                       *)
(*                                                                         *)
(* A caller collects a list of academic records, calls                     *)
(* analyze_academic_history on it and feeds the resulting profile to       *)
(* generate_personalization_config.                                        *)
(*                                                                         *)
(* Numbers.  Scores are integers.  Every mean the code computes is kept    *)
(* as an exact fraction <<numerator, denominator>> with a positive         *)
(* denominator, a standard deviation as the variance it is the square root *)
(* of, and np.log as a fixed-point table, so that every comparison the     *)
(* code makes is decided exactly.  NaN is the fraction 0/0.                *)
(*                                                                         *)
(* Specifications.  Each one draws the record lists from its own bounded   *)
(* set and runs the same Analyze and Configure steps on them:              *)
(*   Spec       one subject, two scores, dates out of input order          *)
(*   SpecScale  assessment scales of 100, 200 and 1000 points              *)
(*   SpecGaps   two subjects, records with and without a topic             *)
(*   SpecTrend  dated histories of more than ten records                   *)
(*   SpecRank   four subjects with very different record counts            *)
(*   SpecDifficulty  records with and without a difficulty_level           *)
(*   SpecConfig      scores and study times around the config thresholds   *)
(*   SpecTotal       every subset of the optional fields; malformed input  *)
(*   SpecPersonalize  profiles with and without style and trends           *)
(*   SpecLevel       every recent performance from 0 to 100                *)
(*   SpecSubjects    every subset of five subjects                         *)
(* SpecCalls runs two calls of analyze_academic_history line by line, and  *)
(* SpecQuestion and SpecStrategy run resolve_doubt up to the choice of the *)
(* response strategy.  SpecServer and SpecSessions run the request         *)
(* handlers of src/backend/ai_main.py and src/backend/simple_main.py and   *)
(* the question generation of                                              *)
(* src/ml-models/content_generation/worksheet_generator.py.                *)
(***************************************************************************)
EXTENDS Integers, Sequences, FiniteSets, TLC

VARIABLES
    records,    \* the academic_records list the caller hands to the profiler
    profile,    \* the dict analyze_academic_history returned, or NoResult
    config,     \* the dict generate_personalization_config returned, or NoResult
    pc,         \* "collect" -> "analyzed" (or "raised") -> "configured"
    heap,       \* the objects that calls share or own: the callers' record
                \* lists and the DataFrames built from them
    profilers,  \* the fields of every StudentProfiler instance
    calls,      \* one frame per call of analyze_academic_history in progress
    doubt_resolution,   \* the dict DoubtResolver.resolve_doubt builds
    students_db,    \* the students_db dict of each backend module
    sessions_db,    \* the sessions_db dict of each backend module
    api_key,        \* openai.api_key
    response        \* what the last request handler returned or raised, with
                    \* what the model call did during the request

callvars == <<heap, profilers, calls>>
servervars == <<students_db, sessions_db, api_key, response>>
vars == <<records, profile, config, pc, heap, profilers, calls, doubt_resolution,
          students_db, sessions_db, api_key, response>>

NONE == "none"          \* a string-valued key the record dict does not carry
NoNumber == -1          \* a number-valued key the record dict does not carry
NoResult == [result |-> "none"]

-----------------------------------------------------------------------------
(* Exact fractions *)

R(n, d) == <<n, d>>
RLt(a, b) == a[1] * b[2] < b[1] * a[2]
RLe(a, b) == a[2] # 0 /\ b[2] # 0 /\ a[1] * b[2] <= b[1] * a[2]
REq(a, b) == a[2] # 0 /\ b[2] # 0 /\ a[1] * b[2] = b[1] * a[2]
RInt(k) == <<k, 1>>
\* float('nan') is the fraction 0/0; every comparison with it is false.
NaN == <<0, 0>>
IsNaN(a) == a[2] = 0
RSub(a, b) == <<a[1] * b[2] - b[1] * a[2], a[2] * b[2]>>
\* a / b for b > 0
RDiv(a, b) == <<a[1] * b[2], a[2] * b[1]>>
\* Python's builtin max(a, b) on floats: b when b > a, else a.
RPyMax(a, b) == IF RLt(a, b) THEN b ELSE a
\* Python's int() on a float: truncation toward zero.
RPyInt(a) == IF a[1] >= 0 THEN a[1] \div a[2] ELSE -((-a[1]) \div a[2])

\* Python's builtin min(a, b) / max(a, b) on integers.
PyMin(a, b) == IF b < a THEN b ELSE a
PyMax(a, b) == IF b > a THEN b ELSE a

-----------------------------------------------------------------------------
(* DataFrame helpers *)

RECURSIVE SumScores(_)
SumScores(s) == IF s = <<>> THEN 0 ELSE Head(s).score + SumScores(Tail(s))

RECURSIVE SumSquares(_)
SumSquares(s) ==
    IF s = <<>> THEN 0 ELSE Head(s).score * Head(s).score + SumSquares(Tail(s))

\* Series.mean() of the score column of a non-empty frame.
MeanScore(s) == R(SumScores(s), Len(s))

\* df.tail(k) and df.head(k)
DfTail(s, k) == IF Len(s) <= k THEN s ELSE SubSeq(s, Len(s) - k + 1, Len(s))
DfHead(s, k) == IF Len(s) <= k THEN s ELSE SubSeq(s, 1, k)

\* df.sort_values('assessment_date'): ascending; on the short frames modelled
\* here numpy's sort is an insertion sort, so rows with equal dates keep their
\* input order.
RECURSIVE InsertByDate(_, _)
InsertByDate(r, s) ==
    IF s = <<>> THEN <<r>>
    ELSE IF s[Len(s)].assessment_date <= r.assessment_date THEN Append(s, r)
         ELSE Append(InsertByDate(r, SubSeq(s, 1, Len(s) - 1)), s[Len(s)])

RECURSIVE SortedFrom(_, _)
SortedFrom(done, rest) ==
    IF rest = <<>> THEN done
    ELSE SortedFrom(InsertByDate(Head(rest), done), Tail(rest))

SortByDate(s) == SortedFrom(<<>>, s)

\* Series.std() (sample standard deviation, ddof = 1) of the score column,
\* as the variance it is the square root of; the square root of NaN (that is,
\* NaN) for fewer than two rows.
ScoreStd(s) ==
    [sqrt_of |-> IF Len(s) < 2 THEN NaN
                 ELSE R(Len(s) * SumSquares(s) - SumScores(s) * SumScores(s),
                        Len(s) * (Len(s) - 1))]

\* The rows of df whose column f holds v (df[df[f] == v]).
Rows(df, f, v) == SelectSeq(df, LAMBDA r : r[f] = v)

\* 'f' in df.columns: pd.DataFrame(list of dicts) has a column for every key
\* that some record carries (string-valued and number-valued keys).
HasColumn(df, f) == \E i \in 1..Len(df) : df[i][f] # NONE
HasNumColumn(df, f) == \E i \in 1..Len(df) : df[i][f] # NoNumber

\* The group keys of df.groupby(f), in the sorted order pandas iterates them;
\* rows without the key (NaN) belong to no group.  order lists the possible
\* keys in ascending order.
GroupKeys(df, f, order) ==
    SelectSeq(order, LAMBDA k : \E i \in 1..Len(df) : df[i][f] = k)

\* Sum of a numeric column over the rows that carry it (NaN is skipped).
RECURSIVE ColSum(_, _)
ColSum(s, f) ==
    IF s = <<>> THEN 0
    ELSE (IF Head(s)[f] = NoNumber THEN 0 ELSE Head(s)[f]) + ColSum(Tail(s), f)

RECURSIVE ColSumSq(_, _)
ColSumSq(s, f) ==
    IF s = <<>> THEN 0
    ELSE (IF Head(s)[f] = NoNumber THEN 0 ELSE Head(s)[f] * Head(s)[f])
         + ColSumSq(Tail(s), f)

ColCount(s, f) == Len(SelectSeq(s, LAMBDA r : r[f] # NoNumber))

\* Series.mean() of column f: NaN when no row carries a value.
ColMean(s, f) == IF ColCount(s, f) = 0 THEN NaN ELSE R(ColSum(s, f), ColCount(s, f))

\* Series.std() of column f (ddof = 1): NaN for fewer than two values.
ColStd(s, f) ==
    [sqrt_of |-> IF ColCount(s, f) < 2 THEN NaN
                 ELSE R(ColCount(s, f) * ColSumSq(s, f) - ColSum(s, f) * ColSum(s, f),
                        ColCount(s, f) * (ColCount(s, f) - 1))]

\* The keys pandas sorts group keys by.
SubjectOrder == <<"Art", "Biology", "English", "History", "Math", "Science">>
TopicOrder == <<"Algebra", "Grammar">>
DifficultyOrder == <<"easy", "hard", "medium", "very_hard">>
AssessmentTypeOrder == <<"exam", "quiz">>

\* np.log(k) for k = 1..16 in ten-thousandths; composite entries are the sums
\* of their prime factors' entries, as the real logarithms are.
LnTable == <<0, 6931, 10986, 13862, 16094, 17917, 19459, 20793,
             21972, 23025, 23979, 24848, 25649, 26390, 27080, 27724>>
NpLog(k) == LnTable[k]

-----------------------------------------------------------------------------
(* Program constants *)

RecentWindow == 5           \* df.tail(5) / df.head(5)
TopLevelMin == 85           \* recent_performance >= 85
TopLevelBase == 60          \* (recent_performance - 60) / 10
TopLevelStep == 10
MaxLevel == 5               \* min(5, ...)
MidLevelMin == 70           \* recent_performance >= 70
MidLevelBase == 50          \* (recent_performance - 50) / 15
MidLevelStep == 15
MidLevelFloor == 2          \* max(2, ...)
LowLevel == 1               \* else: return 1
FullConsistency == 100      \* 100 - std_score
StrengthCount == 3          \* subject_performance.head(3)
WeaknessCount == 2          \* subject_performance.tail(2)
TrendWindow == 10           \* df.tail(10)
TrendSlope == 2             \* slope > 2 / slope < -2
WeakSubjectBelow == 70      \* subject_performance < 70
WeakTopicBelow == 65        \* weak_topics < 65
HighPriorityBelow == 60     \* "high" if subject mean < 60
GoodPerformance == 70       \* difficulty_performance >= 70
PercentScale == 100         \* hard_problems['score'].mean() / 100
SuccessScore == 60          \* df['score'] >= 60
DefaultAverage == 50        \* _default_profile: average_score 50.0
DefaultLevel == 2           \* _default_profile: recommended_level 2
FallbackLevel == 3          \* student_profile.get("recommended_level", 3)
DefaultStudyTime == 30      \* study_patterns.get("average_study_time", 30)
FastBelow == 20             \* avg_study_time < 20
SlowAbove == 45             \* avg_study_time > 45
FastSession == 15
FastBreak == 10
SlowSession == 60
SlowBreak == 20
MediumSession == 30
MediumBreak == 15
HighSupportBelow == 60      \* avg_score < 60
MediumSupportBelow == 75    \* avg_score < 75

-----------------------------------------------------------------------------
(* Overall performance *)

\* Mutant: the windows are taken from the frame as given, without sort_values.
ImprovementRateUnsorted(df) ==
    IF Len(df) < 2 THEN RInt(0)
    ELSE LET recent_scores == MeanScore(DfTail(df, RecentWindow))
             older_scores == MeanScore(DfHead(df, RecentWindow))
         IN  RDiv(RSub(recent_scores, older_scores), RPyMax(older_scores, RInt(1)))

\* Mutant: the later half of the records against the earlier half.
ImprovementRateHalves(df) ==
    IF Len(df) < 2 THEN RInt(0)
    ELSE LET df_sorted == SortByDate(df)
             recent_scores == MeanScore(DfTail(df_sorted, Len(df) \div 2))
             older_scores == MeanScore(DfHead(df_sorted, Len(df) \div 2))
         IN  RDiv(RSub(recent_scores, older_scores), RPyMax(older_scores, RInt(1)))

\* StudentProfiler._calculate_improvement_rate
_calculate_improvement_rate(df) ==
    IF Len(df) < 2 THEN RInt(0)
    ELSE LET df_sorted == SortByDate(df)
             recent_scores == MeanScore(DfTail(df_sorted, RecentWindow))
             older_scores == MeanScore(DfHead(df_sorted, RecentWindow))
         IN  RDiv(RSub(recent_scores, older_scores), RPyMax(older_scores, RInt(1)))

\* Mutant: 100 - std_score without the max(0, ...).
ConsistencyUnclipped(df) == [hundred_minus_sqrt_of |-> ScoreStd(df).sqrt_of]

\* StudentProfiler._calculate_consistency: max(0, 100 - std_score).  The
\* builtin max returns its first argument unless the second compares greater,
\* so a NaN std gives 0.  A positive result is 100 minus the square root of
\* the variance, kept as [hundred_minus_sqrt_of |-> variance].
_calculate_consistency(df) ==
    LET std_score == ScoreStd(df)
    IN  IF IsNaN(std_score.sqrt_of) THEN [value |-> 0]
        ELSE IF RLt(std_score.sqrt_of, RInt(FullConsistency * FullConsistency))
             THEN [hundred_minus_sqrt_of |-> std_score.sqrt_of]
             ELSE [value |-> 0]

\* The expression for recent_performance shared by lines 65 and 126:
\* df.tail(5) of the frame as given, not of a frame sorted by date.
RecentPerformance(df) ==
    IF Len(df) >= RecentWindow THEN MeanScore(DfTail(df, RecentWindow))
    ELSE MeanScore(df)

\* StudentProfiler._calculate_overall_performance
_calculate_overall_performance(df) ==
    [average_score |-> MeanScore(df),
     score_std |-> ScoreStd(df),
     improvement_rate |-> _calculate_improvement_rate(df),
     consistency_score |-> _calculate_consistency(df),
     recent_performance |-> RecentPerformance(df)]

\* Mutant: the top branch no longer asks for a positive improvement rate.
LevelForAnyRate(recent_performance, improvement_rate) ==
        IF RLe(RInt(TopLevelMin), recent_performance)
        THEN PyMin(MaxLevel,
                   RPyInt(RDiv(RSub(recent_performance, RInt(TopLevelBase)),
                               RInt(TopLevelStep))) + 1)
        ELSE IF RLe(RInt(MidLevelMin), recent_performance)
        THEN PyMax(MidLevelFloor,
                   RPyInt(RDiv(RSub(recent_performance, RInt(MidLevelBase)),
                               RInt(MidLevelStep))))
        ELSE LowLevel

\* Mutant: the top branch asks for an improvement rate that is not positive.
LevelForFallingRate(recent_performance, improvement_rate) ==
        IF RLe(RInt(TopLevelMin), recent_performance) /\ ~RLt(RInt(0), improvement_rate)
        THEN PyMin(MaxLevel,
                   RPyInt(RDiv(RSub(recent_performance, RInt(TopLevelBase)),
                               RInt(TopLevelStep))) + 1)
        ELSE IF RLe(RInt(MidLevelMin), recent_performance)
        THEN PyMax(MidLevelFloor,
                   RPyInt(RDiv(RSub(recent_performance, RInt(MidLevelBase)),
                               RInt(MidLevelStep))))
        ELSE LowLevel

\* The branches of _recommend_difficulty_level (lines 130-135).
LevelFor(recent_performance, improvement_rate) ==
        IF RLe(RInt(TopLevelMin), recent_performance) /\ RLt(RInt(0), improvement_rate)
        THEN PyMin(MaxLevel,
                   RPyInt(RDiv(RSub(recent_performance, RInt(TopLevelBase)),
                               RInt(TopLevelStep))) + 1)
        ELSE IF RLe(RInt(MidLevelMin), recent_performance)
        THEN PyMax(MidLevelFloor,
                   RPyInt(RDiv(RSub(recent_performance, RInt(MidLevelBase)),
                               RInt(MidLevelStep))))
        ELSE LowLevel

\* StudentProfiler._recommend_difficulty_level
_recommend_difficulty_level(df) ==
    LevelFor(RecentPerformance(df), _calculate_improvement_rate(df))

-----------------------------------------------------------------------------
(* Subject strengths *)

\* Mutant: the rows are ranked by their mean, without the np.log(count + 1)
\* weight.
SubjectRowUnweighted(df, subject) ==
    LET rows == Rows(df, "subject", subject)
    IN  [subject |-> subject,
         mean |-> MeanScore(rows),
         count |-> Len(rows),
         weighted_score |-> MeanScore(rows)]

\* One row of df.groupby('subject')['score'].agg(['mean', 'count', 'std'])
\* with its weighted_score = mean * np.log(count + 1).
SubjectRow(df, subject) ==
    LET rows == Rows(df, "subject", subject)
    IN  [subject |-> subject,
         mean |-> MeanScore(rows),
         count |-> Len(rows),
         weighted_score |-> R(SumScores(rows) * NpLog(Len(rows) + 1), Len(rows))]

\* sort_values('weighted_score', ascending=False): rows with equal weighted
\* scores keep the order of the group keys.
RECURSIVE InsertByWeightDesc(_, _)
InsertByWeightDesc(g, s) ==
    IF s = <<>> THEN <<g>>
    ELSE IF RLe(g.weighted_score, s[Len(s)].weighted_score) THEN Append(s, g)
         ELSE Append(InsertByWeightDesc(g, SubSeq(s, 1, Len(s) - 1)), s[Len(s)])

RECURSIVE SortedByWeightFrom(_, _)
SortedByWeightFrom(done, rest) ==
    IF rest = <<>> THEN done
    ELSE SortedByWeightFrom(InsertByWeightDesc(Head(rest), done), Tail(rest))

SortByWeightDesc(s) == SortedByWeightFrom(<<>>, s)

SubjectsOf(rows) == [i \in 1..Len(rows) |-> rows[i].subject]

\* Mutant: weaknesses are taken from the rows the strengths leave over.
SubjectStrengthsDisjoint(df) ==
    LET keys == GroupKeys(df, "subject", SubjectOrder)
        grouped == [i \in 1..Len(keys) |-> SubjectRow(df, keys[i])]
        subject_performance == SortByWeightDesc(grouped)
        left_over == SubSeq(subject_performance, StrengthCount + 1,
                            Len(subject_performance))
    IN  [strengths |-> SubjectsOf(DfHead(subject_performance, StrengthCount)),
         weaknesses |-> SubjectsOf(DfTail(left_over, WeaknessCount)),
         subject_scores |-> [i \in 1..Len(subject_performance) |->
                                [subject |-> subject_performance[i].subject,
                                 mean |-> subject_performance[i].mean]]]

\* StudentProfiler._identify_subject_strengths
_identify_subject_strengths(df) ==
    LET keys == GroupKeys(df, "subject", SubjectOrder)
        grouped == [i \in 1..Len(keys) |-> SubjectRow(df, keys[i])]
        subject_performance == SortByWeightDesc(grouped)
    IN  [strengths |-> SubjectsOf(DfHead(subject_performance, StrengthCount)),
         weaknesses |-> SubjectsOf(DfTail(subject_performance, WeaknessCount)),
         subject_scores |-> [i \in 1..Len(subject_performance) |->
                                [subject |-> subject_performance[i].subject,
                                 mean |-> subject_performance[i].mean]]]

-----------------------------------------------------------------------------
(* Learning trends *)

\* df['score'].values
ScoresOf(df) == [i \in 1..Len(df) |-> df[i].score]

RECURSIVE SumSeq(_)
SumSeq(s) == IF s = <<>> THEN 0 ELSE Head(s) + SumSeq(Tail(s))

\* sum of x * scores[x] for x = 0..n-1 (x = np.arange(len(scores)))
RECURSIVE SumXY(_, _)
SumXY(s, x) == IF s = <<>> THEN 0 ELSE x * Head(s) + SumXY(Tail(s), x + 1)

RECURSIVE SumTo(_)
SumTo(n) == IF n <= 0 THEN 0 ELSE n + SumTo(n - 1)

RECURSIVE SumSqTo(_)
SumSqTo(n) == IF n <= 0 THEN 0 ELSE n * n + SumSqTo(n - 1)

\* np.polyfit(x, scores, 1)[0]: the least-squares slope, from the normal
\* equations  slope = (n Sxy - Sx Sy) / (n Sxx - Sx^2).
PolyfitSlope(s) ==
    LET n == Len(s)
        Sx == SumTo(n - 1)
    IN  R(n * SumXY(s, 0) - Sx * SumSeq(s), n * SumSqTo(n - 1) - Sx * Sx)

\* StudentProfiler._calculate_trend
_calculate_trend(scores) ==
    IF Len(scores) < 2 THEN "stable"
    ELSE LET slope == PolyfitSlope(scores)
         IN  IF RLt(RInt(TrendSlope), slope) THEN "improving"
             ELSE IF RLt(slope, RInt(-TrendSlope)) THEN "declining"
             ELSE "stable"

RECURSIVE MaxScore(_)
MaxScore(s) ==
    IF Len(s) = 1 THEN s[1].score ELSE PyMax(MaxScore(Tail(s)), Head(s).score)

RECURSIVE MinScore(_)
MinScore(s) ==
    IF Len(s) = 1 THEN s[1].score ELSE PyMin(MinScore(Tail(s)), Head(s).score)

\* Mutant: the trends are computed on the frame as given, without sort_values.
AnalyzeTrendsUnsorted(df) ==
    [recent_trend |-> _calculate_trend(ScoresOf(DfTail(df, TrendWindow))),
     overall_trend |-> _calculate_trend(ScoresOf(df)),
     volatility |-> ScoreStd(df),
     peak_performance |-> MaxScore(df),
     lowest_performance |-> MinScore(df)]

\* StudentProfiler._analyze_learning_trends.  pd.to_datetime leaves a
\* timestamp as it is, and the rolling_avg column is never read.
_analyze_learning_trends(df) ==
    LET sorted == SortByDate(df)
    IN  [recent_trend |-> _calculate_trend(ScoresOf(DfTail(sorted, TrendWindow))),
         overall_trend |-> _calculate_trend(ScoresOf(sorted)),
         volatility |-> ScoreStd(sorted),
         peak_performance |-> MaxScore(sorted),
         lowest_performance |-> MinScore(sorted)]

-----------------------------------------------------------------------------
(* Difficulty preferences *)

EmptyDict == [k \in {} |-> NONE]

\* dict.get(key, default)
Get(d, key, default) == IF key \in DOMAIN d THEN d[key] ELSE default

\* The first key of the Series, whatever its value.
IdxFirst(perf) == perf[1].key

\* Series.idxmax() over rows <<[key, mean]>>: the first key holding the maximum.
IdxMax(perf) ==
    LET best == CHOOSE i \in 1..Len(perf) :
                    /\ \A j \in 1..Len(perf) : RLe(perf[j].mean, perf[i].mean)
                    /\ \A j \in 1..(i - 1) : RLt(perf[j].mean, perf[i].mean)
    IN  perf[best].key

\* Mutant: the first difficulty that reaches the threshold, when one does.
OptimalDifficultyFirstGood(difficulty_performance) ==
    IF difficulty_performance = <<>> THEN "medium"
    ELSE LET good_performance ==
                 SelectSeq(difficulty_performance,
                           LAMBDA g : RLe(RInt(GoodPerformance), g.mean))
         IN  IF good_performance # <<>> THEN good_performance[1].key
             ELSE IdxMax(difficulty_performance)

\* StudentProfiler._find_optimal_difficulty
_find_optimal_difficulty(difficulty_performance) ==
    IF difficulty_performance = <<>> THEN "medium"
    ELSE LET good_performance ==
                 SelectSeq(difficulty_performance,
                           LAMBDA g : RLe(RInt(GoodPerformance), g.mean))
         IN  IF good_performance # <<>> THEN IdxMax(good_performance)
             ELSE IdxMax(difficulty_performance)

\* StudentProfiler._calculate_challenge_tolerance
_calculate_challenge_tolerance(df) ==
    IF ~HasColumn(df, "difficulty_level") THEN R(1, 2)
    ELSE LET hard_problems ==
                 SelectSeq(df, LAMBDA r : r.difficulty_level \in {"hard", "very_hard"})
         IN  IF hard_problems = <<>> THEN R(1, 2)
             ELSE RDiv(MeanScore(hard_problems), RInt(PercentScale))

\* StudentProfiler._assess_difficulty_preferences
_assess_difficulty_preferences(df) ==
    IF ~HasColumn(df, "difficulty_level")
    THEN [optimal_difficulty |-> "medium", difficulty_scores |-> EmptyDict]
    ELSE LET keys == GroupKeys(df, "difficulty_level", DifficultyOrder)
             difficulty_performance ==
                 [i \in 1..Len(keys) |->
                     [key |-> keys[i],
                      mean |-> MeanScore(Rows(df, "difficulty_level", keys[i]))]]
         IN  [optimal_difficulty |-> _find_optimal_difficulty(difficulty_performance),
              difficulty_scores |->
                  [k \in {keys[i] : i \in 1..Len(keys)} |->
                      MeanScore(Rows(df, "difficulty_level", k))],
              challenge_tolerance |-> _calculate_challenge_tolerance(df)]

-----------------------------------------------------------------------------
(* Learning gaps *)

\* The gap entry appended for one weak subject (lines 148-156).
GapEntry(df, subject) ==
    LET subject_data == Rows(df, "subject", subject)
        topics == GroupKeys(subject_data, "topic", TopicOrder)
    IN  [subject |-> subject,
         weak_topics |->
             SelectSeq(topics,
                       LAMBDA t : RLt(MeanScore(Rows(subject_data, "topic", t)),
                                      RInt(WeakTopicBelow))),
         average_score |-> MeanScore(subject_data),
         priority |-> IF RLt(MeanScore(subject_data), RInt(HighPriorityBelow))
                      THEN "high" ELSE "medium"]

\* StudentProfiler._identify_learning_gaps.  subject_data keeps every column
\* of df, so 'topic' in subject_data.columns asks whether any record of the
\* whole list carries a topic; without one nothing is appended.
_identify_learning_gaps(df) ==
    LET weak_subjects ==
            SelectSeq(GroupKeys(df, "subject", SubjectOrder),
                      LAMBDA sub : RLt(MeanScore(Rows(df, "subject", sub)),
                                       RInt(WeakSubjectBelow)))
    IN  IF HasColumn(df, "topic")
        THEN [i \in 1..Len(weak_subjects) |-> GapEntry(df, weak_subjects[i])]
        ELSE <<>>

-----------------------------------------------------------------------------
(* Study patterns *)

\* StudentProfiler._calculate_persistence_score; builtin min(1.0, x) returns
\* x only when x < 1.0, so NaN (no successful record) gives 1.0.
_calculate_persistence_score(df) ==
    IF ~HasNumColumn(df, "attempts") THEN R(1, 2)
    ELSE LET avg_attempts == ColMean(df, "attempts")
             successful_attempts ==
                 ColMean(SelectSeq(df, LAMBDA r : r.score >= SuccessScore), "attempts")
         IN  IF IsNaN(successful_attempts) THEN RInt(1)
             ELSE LET x == RDiv(successful_attempts, RPyMax(avg_attempts, RInt(1)))
                  IN  IF RLt(x, RInt(1)) THEN x ELSE RInt(1)

\* StudentProfiler._analyze_study_patterns
_analyze_study_patterns(df) ==
    LET time_part ==
            IF HasNumColumn(df, "time_taken_minutes")
            THEN [average_study_time |-> ColMean(df, "time_taken_minutes"),
                  study_time_consistency |-> ColStd(df, "time_taken_minutes")]
            ELSE EmptyDict
        attempts_part ==
            IF HasNumColumn(df, "attempts")
            THEN [average_attempts |-> ColMean(df, "attempts"),
                  persistence_score |-> _calculate_persistence_score(df)]
            ELSE EmptyDict
        type_part ==
            IF HasColumn(df, "assessment_type")
            THEN [assessment_type_preferences |->
                     [t \in {df[i].assessment_type : i \in 1..Len(df)} \ {NONE} |->
                         MeanScore(Rows(df, "assessment_type", t))]]
            ELSE EmptyDict
    IN  time_part @@ attempts_part @@ type_part

-----------------------------------------------------------------------------
(* The profile *)

\* Mutant: the default profile recommends the config's fallback level.
DefaultProfileLevel3 ==
    [overall_performance |->
         [average_score |-> RInt(DefaultAverage), improvement_rate |-> RInt(0)],
     subject_strengths |-> [strengths |-> <<>>, weaknesses |-> <<>>],
     learning_trends |-> [recent_trend |-> "stable", overall_trend |-> "stable"],
     difficulty_preferences |-> [optimal_difficulty |-> "medium"],
     recommended_level |-> FallbackLevel,
     learning_gaps |-> <<>>,
     study_patterns |-> EmptyDict]

\* StudentProfiler._default_profile
_default_profile ==
    [overall_performance |->
         [average_score |-> RInt(DefaultAverage), improvement_rate |-> RInt(0)],
     subject_strengths |-> [strengths |-> <<>>, weaknesses |-> <<>>],
     learning_trends |-> [recent_trend |-> "stable", overall_trend |-> "stable"],
     difficulty_preferences |-> [optimal_difficulty |-> "medium"],
     recommended_level |-> DefaultLevel,
     learning_gaps |-> <<>>,
     study_patterns |-> EmptyDict]

\* The outcome of a call that raised instead of returning.
Raised(exception) == [raised |-> exception]

\* The columns read without a guard, 'topic' among them.
KeyErrorsTopicUnguarded(df) ==
    {f \in {"subject", "topic"} : ~HasColumn(df, f)}
    \cup {f \in {"score", "assessment_date"} : ~HasNumColumn(df, f)}

\* The columns that analyze_academic_history reads without a guard (df['score']
\* at line 61, groupby('subject') at line 70, df['assessment_date'] at line 89)
\* and that df does not have: each such read raises KeyError.  topic,
\* difficulty_level, time_taken_minutes, attempts and assessment_type are read
\* only behind an "in df.columns" test.
KeyErrors(df) ==
    {f \in {"subject"} : ~HasColumn(df, f)}
    \cup {f \in {"score", "assessment_date"} : ~HasNumColumn(df, f)}

\* StudentProfiler.analyze_academic_history
analyze_academic_history(academic_records) ==
    IF academic_records = <<>> THEN _default_profile
    ELSE LET df == academic_records
         IN  IF KeyErrors(df) # {} THEN Raised("KeyError") ELSE
             [overall_performance |-> _calculate_overall_performance(df),
              subject_strengths |-> _identify_subject_strengths(df),
              learning_trends |-> _analyze_learning_trends(df),
              difficulty_preferences |-> _assess_difficulty_preferences(df),
              recommended_level |-> _recommend_difficulty_level(df),
              learning_gaps |-> _identify_learning_gaps(df),
              study_patterns |-> _analyze_study_patterns(df)]

-----------------------------------------------------------------------------
(* The personalization config *)

\* StudentProfiler._determine_content_preferences
_determine_content_preferences(student_profile) ==
    LET learning_style == Get(student_profile, "learning_style", "visual")
    IN  [explanation_style |-> "detailed",
         example_types |->
             IF learning_style = "visual" THEN <<"visual", "diagrams", "charts">>
             ELSE IF learning_style = "auditory" THEN <<"verbal", "audio", "discussions">>
             ELSE IF learning_style = "kinesthetic"
                  THEN <<"hands-on", "interactive", "practical">>
             ELSE <<"practical", "visual">>,
         interaction_level |-> "medium"]

\* Pacing with both thresholds inclusive.
PacingInclusive(student_profile) ==
    LET study_patterns == Get(student_profile, "study_patterns", EmptyDict)
        avg_study_time ==
            Get(study_patterns, "average_study_time", RInt(DefaultStudyTime))
    IN  IF RLe(avg_study_time, RInt(FastBelow))
        THEN [pace |-> "fast", session_length |-> FastSession,
              break_frequency |-> FastBreak]
        ELSE IF RLe(RInt(SlowAbove), avg_study_time)
        THEN [pace |-> "slow", session_length |-> SlowSession,
              break_frequency |-> SlowBreak]
        ELSE [pace |-> "medium", session_length |-> MediumSession,
              break_frequency |-> MediumBreak]

\* StudentProfiler._determine_optimal_pacing
_determine_optimal_pacing(student_profile) ==
    LET study_patterns == Get(student_profile, "study_patterns", EmptyDict)
        avg_study_time ==
            Get(study_patterns, "average_study_time", RInt(DefaultStudyTime))
    IN  IF ~IsNaN(avg_study_time) /\ RLt(avg_study_time, RInt(FastBelow))
        THEN [pace |-> "fast", session_length |-> FastSession,
              break_frequency |-> FastBreak]
        ELSE IF ~IsNaN(avg_study_time) /\ RLt(RInt(SlowAbove), avg_study_time)
        THEN [pace |-> "slow", session_length |-> SlowSession,
              break_frequency |-> SlowBreak]
        ELSE [pace |-> "medium", session_length |-> MediumSession,
              break_frequency |-> MediumBreak]

\* Support level with both thresholds inclusive.
SupportLevelInclusive(student_profile) ==
    LET overall_perf == Get(student_profile, "overall_performance", EmptyDict)
        avg_score == Get(overall_perf, "average_score", RInt(DefaultAverage))
    IN  IF RLe(avg_score, RInt(HighSupportBelow)) THEN "high"
        ELSE IF RLe(avg_score, RInt(MediumSupportBelow)) THEN "medium"
        ELSE "low"

\* StudentProfiler._determine_support_level
_determine_support_level(student_profile) ==
    LET overall_perf == Get(student_profile, "overall_performance", EmptyDict)
        avg_score == Get(overall_perf, "average_score", RInt(DefaultAverage))
    IN  IF RLt(avg_score, RInt(HighSupportBelow)) THEN "high"
        ELSE IF RLt(avg_score, RInt(MediumSupportBelow)) THEN "medium"
        ELSE "low"

\* The motivation strategy chosen by overall_trend.
MotivationByOverallTrend(student_profile) ==
    LET learning_trends == Get(student_profile, "learning_trends", EmptyDict)
        overall_trend == Get(learning_trends, "overall_trend", "stable")
    IN  IF overall_trend = "declining"
        THEN [strategy |-> "encouragement", focus |-> "small_wins",
              rewards |-> "frequent"]
        ELSE IF overall_trend = "improving"
        THEN [strategy |-> "challenge", focus |-> "growth",
              rewards |-> "achievement_based"]
        ELSE [strategy |-> "balanced", focus |-> "consistency",
              rewards |-> "progress_based"]

\* StudentProfiler._determine_motivation_strategy
_determine_motivation_strategy(student_profile) ==
    LET learning_trends == Get(student_profile, "learning_trends", EmptyDict)
        recent_trend == Get(learning_trends, "recent_trend", "stable")
    IN  IF recent_trend = "declining"
        THEN [strategy |-> "encouragement", focus |-> "small_wins",
              rewards |-> "frequent"]
        ELSE IF recent_trend = "improving"
        THEN [strategy |-> "challenge", focus |-> "growth",
              rewards |-> "achievement_based"]
        ELSE [strategy |-> "balanced", focus |-> "consistency",
              rewards |-> "progress_based"]

\* StudentProfiler.generate_personalization_config
generate_personalization_config(student_profile) ==
    [difficulty_level |-> Get(student_profile, "recommended_level", FallbackLevel),
     learning_style |-> Get(student_profile, "learning_style", "visual"),
     content_preferences |-> _determine_content_preferences(student_profile),
     pacing |-> _determine_optimal_pacing(student_profile),
     support_level |-> _determine_support_level(student_profile),
     motivation_strategy |-> _determine_motivation_strategy(student_profile)]

-----------------------------------------------------------------------------
(* The doubt resolver (src/ml-models/doubt_clearing/doubt_resolver.py).     *)
(* A question is the sequence of its characters.                           *)

UpperCase ==
    <<"A", "B", "C", "D", "E", "F", "G", "H", "I", "J", "K", "L", "M",
      "N", "O", "P", "Q", "R", "S", "T", "U", "V", "W", "X", "Y", "Z">>
LowerCase ==
    <<"a", "b", "c", "d", "e", "f", "g", "h", "i", "j", "k", "l", "m",
      "n", "o", "p", "q", "r", "s", "t", "u", "v", "w", "x", "y", "z">>

\* str.lower(), one character at a time
LowerOf ==
    [c \in {UpperCase[i] : i \in 1..Len(UpperCase)} |->
        LowerCase[CHOOSE i \in 1..Len(UpperCase) : UpperCase[i] = c]]
ToLower(c) == IF c \in DOMAIN LowerOf THEN LowerOf[c] ELSE c
Lower(text) == [i \in 1..Len(text) |-> ToLower(text[i])]

\* Mutant: word occurs in text as a whole word (or run of whole words).
ContainsWord(text, word) ==
    \E i \in 0..(Len(text) - Len(word)) :
        /\ SubSeq(text, i + 1, i + Len(word)) = word
        /\ (i = 0 \/ text[i] = " ")
        /\ (i + Len(word) = Len(text) \/ text[i + Len(word) + 1] = " ")

\* word in text: word occurs in text as a substring
Contains(text, word) ==
    \E i \in 0..(Len(text) - Len(word)) : SubSeq(text, i + 1, i + Len(word)) = word

\* any(word in text for word in words)
AnyIn(text, words) == \E word \in words : Contains(text, word)

\* sum(1 for word in words if word in text)
CountIn(text, words) == Cardinality({word \in words : Contains(text, word)})

DefinitionWords ==
    {<<"w", "h", "a", "t">>,
     <<"d", "e", "f", "i", "n", "e">>,
     <<"m", "e", "a", "n", "i", "n", "g">>}

ProcedureWords ==
    {<<"h", "o", "w">>,
     <<"s", "t", "e", "p", "s">>,
     <<"p", "r", "o", "c", "e", "s", "s">>}

ExplanationWords ==
    {<<"w", "h", "y">>,
     <<"r", "e", "a", "s", "o", "n">>,
     <<"b", "e", "c", "a", "u", "s", "e">>}

ExampleWords ==
    {<<"e", "x", "a", "m", "p", "l", "e">>,
     <<"i", "n", "s", "t", "a", "n", "c", "e">>,
     <<"s", "h", "o", "w", " ", "m", "e">>}

ProblemSolvingWords ==
    {<<"s", "o", "l", "v", "e">>,
     <<"c", "a", "l", "c", "u", "l", "a", "t", "e">>,
     <<"f", "i", "n", "d">>}

ComparisonWords ==
    {<<"d", "i", "f", "f", "e", "r", "e", "n", "c", "e">>,
     <<"c", "o", "m", "p", "a", "r", "e">>,
     <<"v", "e", "r", "s", "u", "s">>}

UrgentIndicators ==
    {<<"u", "r", "g", "e", "n", "t">>,
     <<"e", "x", "a", "m">>,
     <<"t", "e", "s", "t">>,
     <<"t", "o", "m", "o", "r", "r", "o", "w">>,
     <<"h", "e", "l", "p">>,
     <<"s", "t", "u", "c", "k">>,
     <<"c", "o", "n", "f", "u", "s", "e", "d">>}

\* The same chain with the procedure words tested before the definition words.
ClassifyProcedureFirst(question) ==
    LET question_lower == Lower(question)
    IN  IF AnyIn(question_lower, ProcedureWords) THEN "procedure"
        ELSE IF AnyIn(question_lower, DefinitionWords) THEN "definition"
        ELSE IF AnyIn(question_lower, ExplanationWords) THEN "explanation"
        ELSE IF AnyIn(question_lower, ExampleWords) THEN "example_request"
        ELSE IF AnyIn(question_lower, ProblemSolvingWords) THEN "problem_solving"
        ELSE IF AnyIn(question_lower, ComparisonWords) THEN "comparison"
        ELSE "general_inquiry"

\* DoubtResolver._classify_question_type
_classify_question_type(question) ==
    LET question_lower == Lower(question)
    IN  IF AnyIn(question_lower, DefinitionWords) THEN "definition"
        ELSE IF AnyIn(question_lower, ProcedureWords) THEN "procedure"
        ELSE IF AnyIn(question_lower, ExplanationWords) THEN "explanation"
        ELSE IF AnyIn(question_lower, ExampleWords) THEN "example_request"
        ELSE IF AnyIn(question_lower, ProblemSolvingWords) THEN "problem_solving"
        ELSE IF AnyIn(question_lower, ComparisonWords) THEN "comparison"
        ELSE "general_inquiry"

SimpleWords == 10
SimpleTerms == 2
MediumWords == 20
MediumTerms == 4
HighUrgency == 2
MediumUrgency == 1
DefaultCurrentLevel == 50
EscalateBelow == 70

\* len(question.split()): the number of maximal runs of non-blank characters
WordCount(question) ==
    Cardinality({i \in 1..Len(question) :
                    question[i] # " " /\ (i = 1 \/ question[i - 1] = " ")})

\* DoubtResolver._assess_complexity.  technical_terms is what
\* self._count_technical_terms(question) returned.
_assess_complexity(question, technical_terms) ==
    LET word_count == WordCount(question)
    IN  IF word_count < SimpleWords /\ technical_terms < SimpleTerms THEN "simple"
        ELSE IF word_count < MediumWords /\ technical_terms < MediumTerms THEN "medium"
        ELSE "complex"

\* DoubtResolver._assess_urgency
_assess_urgency(question) ==
    LET question_lower == Lower(question)
        urgent_count == CountIn(question_lower, UrgentIndicators)
    IN  IF urgent_count >= HighUrgency THEN "high"
        ELSE IF urgent_count = MediumUrgency THEN "medium"
        ELSE "low"

\* DoubtResolver._analyze_question: the entries computed from the question
\* text alone.  key_concepts and sentiment come from nltk and
\* misconception_indicators from a table loaded at construction; the
\* response strategy reads none of them.
_analyze_question(question, technical_terms) ==
    [question_type |-> _classify_question_type(question),
     complexity_level |-> _assess_complexity(question, technical_terms),
     urgency_level |-> _assess_urgency(question)]

\* The type overrides with example_request treated like explanation.
TypeOverridesExample(strategy, question_type) ==
    IF question_type = "definition"
    THEN [approach |-> "direct", explanation_style |-> "detailed"] @@ strategy
    ELSE IF question_type = "procedure"
    THEN [explanation_style |-> "step_by_step", include_examples |-> TRUE] @@ strategy
    ELSE IF question_type \in {"explanation", "example_request"}
    THEN [approach |-> "socratic", use_analogies |-> TRUE] @@ strategy
    ELSE strategy

\* The type overrides with procedure questions answered by a guided approach.
TypeOverridesGuided(strategy, question_type) ==
    IF question_type = "definition"
    THEN [approach |-> "direct", explanation_style |-> "detailed"] @@ strategy
    ELSE IF question_type = "procedure"
    THEN [approach |-> "guided", explanation_style |-> "step_by_step",
          include_examples |-> TRUE] @@ strategy
    ELSE IF question_type = "explanation"
    THEN [approach |-> "socratic", use_analogies |-> TRUE] @@ strategy
    ELSE strategy

\* "Adjust based on question type" (lines 210-221)
TypeOverrides(strategy, question_type) ==
    IF question_type = "definition"
    THEN [approach |-> "direct", explanation_style |-> "detailed"] @@ strategy
    ELSE IF question_type = "procedure"
    THEN [explanation_style |-> "step_by_step", include_examples |-> TRUE] @@ strategy
    ELSE IF question_type = "explanation"
    THEN [approach |-> "socratic", use_analogies |-> TRUE] @@ strategy
    ELSE strategy

\* "Adjust based on learning style" (lines 223-227)
StyleOverrides(strategy, learning_style) ==
    IF learning_style = "visual" THEN [include_diagrams |-> TRUE] @@ strategy
    ELSE IF learning_style = "kinesthetic" THEN [provide_practice |-> TRUE] @@ strategy
    ELSE strategy

\* "Adjust based on complexity and student level" (lines 229-233)
Escalation(strategy, complexity, difficulty_level) ==
    IF complexity = "complex" /\ difficulty_level < EscalateBelow
    THEN [explanation_style |-> "step_by_step", use_analogies |-> TRUE] @@ strategy
    ELSE strategy

\* The strategy dict as line 202 creates it.
DefaultStrategy ==
    [approach |-> "socratic", explanation_style |-> "detailed",
     include_examples |-> TRUE, use_analogies |-> FALSE, provide_practice |-> FALSE]

\* The same adjustments with the escalation made first.
StrategyEscalationFirst(question_analysis, student_profile) ==
    LET learning_style == Get(student_profile, "learning_style", "visual")
        difficulty_level == Get(student_profile, "current_level", DefaultCurrentLevel)
        question_type == Get(question_analysis, "question_type", "general_inquiry")
        complexity == Get(question_analysis, "complexity_level", "medium")
    IN  StyleOverrides(
            TypeOverrides(Escalation(DefaultStrategy, complexity, difficulty_level),
                          question_type),
            learning_style)

\* DoubtResolver._determine_response_strategy
_determine_response_strategy(question_analysis, student_profile) ==
    LET learning_style == Get(student_profile, "learning_style", "visual")
        difficulty_level == Get(student_profile, "current_level", DefaultCurrentLevel)
        question_type == Get(question_analysis, "question_type", "general_inquiry")
        complexity == Get(question_analysis, "complexity_level", "medium")
    IN  Escalation(
            StyleOverrides(TypeOverrides(DefaultStrategy, question_type), learning_style),
            complexity, difficulty_level)

-----------------------------------------------------------------------------
(* The caller: collect records, analyze, configure *)

\* One academic record dict.  topic, difficulty_level and assessment_type are
\* NONE, attempts and time_taken_minutes NoNumber, when the dict has no such
\* key.  assessment_date is a timestamp, counted in days.
Record(subject, topic, score, max_score, difficulty_level, assessment_date, attempts, time_taken_minutes, assessment_type) ==
    [subject |-> subject, topic |-> topic, score |-> score,
     max_score |-> max_score, difficulty_level |-> difficulty_level,
     assessment_date |-> assessment_date, attempts |-> attempts,
     time_taken_minutes |-> time_taken_minutes,
     assessment_type |-> assessment_type]

\* A record that carries only the required keys.
PlainRecord(subject, score, max_score, assessment_date) ==
    Record(subject, NONE, score, max_score, NONE, assessment_date,
           NoNumber, NoNumber, NONE)

\* Well-formed input (spec section 7): max_score > 0 and 0 <= score <= max_score.
WellFormed(r) == r.max_score > 0 /\ 0 <= r.score /\ r.score <= r.max_score

LearningStyles == {"visual", "auditory", "kinesthetic"}

\* No call is running step by step, and no doubt is being resolved.
NoCalls == heap = <<>> /\ profilers = <<>> /\ calls = <<>>
NoDoubt == doubt_resolution = NoResult
\* No backend module is loaded.
NoServer ==
    students_db = <<>> /\ sessions_db = <<>> /\ api_key = NONE /\ response = NoResult

InitCollect ==
    /\ records = <<>>
    /\ profile = NoResult
    /\ config = NoResult
    /\ pc = "collect"
    /\ NoCalls /\ NoDoubt /\ NoServer

\* The caller already holds one of the record lists in inputs.
InitFrom(inputs) ==
    /\ records \in inputs
    /\ profile = NoResult
    /\ config = NoResult
    /\ pc = "collect"
    /\ NoCalls /\ NoDoubt /\ NoServer

\* All sequences over alphabet of length at most n.
SeqsUpTo(alphabet, n) == UNION {[1..k -> alphabet] : k \in 0..n}

\* The caller appends one more record to the list it will hand over.
AddRecord(alphabet, cap) ==
    /\ pc = "collect"
    /\ Len(records) < cap
    /\ \E r \in alphabet : records' = Append(records, r)
    /\ UNCHANGED <<profile, config, pc, callvars, doubt_resolution, servervars>>

\* profile = profiler.analyze_academic_history(records)
Analyze ==
    /\ pc = "collect"
    /\ LET result == analyze_academic_history(records)
       IN  /\ profile' = result
           /\ pc' = IF "raised" \in DOMAIN result THEN "raised" ELSE "analyzed"
    /\ UNCHANGED <<records, config, callvars, doubt_resolution, servervars>>

\* config = profiler.generate_personalization_config(student_profile), where
\* student_profile is the analysis, with the student's learning_style when
\* the caller has one.
Configure(styles) ==
    /\ pc = "analyzed"
    /\ \E style \in styles :
          LET student_profile ==
                  IF style = NONE THEN profile
                  ELSE profile @@ [learning_style |-> style]
          IN  config' = generate_personalization_config(student_profile)
    /\ pc' = "configured"
    /\ UNCHANGED <<records, profile, callvars, doubt_resolution, servervars>>

\* The same call on a student_profile from which the caller has left out some
\* of the keys the configuration reads.
ConfigureWithout(styles) ==
    /\ pc = "analyzed"
    /\ \E style \in styles :
       \E absent \in SUBSET {"overall_performance", "learning_trends",
                             "recommended_level", "study_patterns"} :
          LET kept == [k \in DOMAIN profile \ absent |-> profile[k]]
              student_profile ==
                  IF style = NONE THEN kept
                  ELSE kept @@ [learning_style |-> style]
          IN  config' = generate_personalization_config(student_profile)
    /\ pc' = "configured"
    /\ UNCHANGED <<records, profile, callvars, doubt_resolution, servervars>>

-----------------------------------------------------------------------------
(* Specification Spec: up to MaxRecords records of one subject, with dates  *)
(* that need not follow the input order                                    *)

MaxRecords == 6

LevelScores == {60, 100}
LevelDates == {1, 2}
LevelRecords ==
    {PlainRecord("Math", sc, 100, d) : sc \in LevelScores, d \in LevelDates}

Init == InitCollect
Next ==
    \/ AddRecord(LevelRecords, MaxRecords)
    \/ Analyze
    \/ Configure({"visual"})
Spec == Init /\ [][Next]_vars


Analyzed == pc # "collect"
N == Len(records)

-----------------------------------------------------------------------------
(* C1: the empty list gets the default profile, and only the empty list *)

\* The keys only the aggregator/analyzer steps produce.
Aggregated(p) ==
    /\ "recent_performance" \in DOMAIN p.overall_performance
    /\ "subject_scores" \in DOMAIN p.subject_strengths
    /\ "volatility" \in DOMAIN p.learning_trends

\* C1: for an empty record list analyze_academic_history returns the default
\* profile (average_score 50.0, improvement_rate 0.0, no strengths, no
\* weaknesses, both trends "stable", optimal_difficulty "medium",
\* recommended_level 2, no learning gaps), and for every non-empty list it
\* returns an aggregated profile.
C1_DefaultProfile ==
    Analyzed =>
        IF records = <<>>
        THEN /\ profile.overall_performance.average_score = <<50, 1>>
             /\ profile.overall_performance.improvement_rate = <<0, 1>>
             /\ profile.subject_strengths.strengths = <<>>
             /\ profile.subject_strengths.weaknesses = <<>>
             /\ DOMAIN profile.subject_strengths = {"strengths", "weaknesses"}
             /\ profile.learning_trends.recent_trend = "stable"
             /\ profile.learning_trends.overall_trend = "stable"
             /\ profile.difficulty_preferences.optimal_difficulty = "medium"
             /\ profile.recommended_level = 2
             /\ profile.learning_gaps = <<>>
             /\ ~Aggregated(profile)
        ELSE Aggregated(profile)

C1_Witness == pc = "configured" /\ records = <<>>

-----------------------------------------------------------------------------
(* C2: the three branches of recommended_level *)

\* floor of the fraction a (TLA+ \div rounds toward minus infinity).
Floor(a) == a[1] \div a[2]

\* The level the claim states for recent performance rp and improvement rate ir.
C2_Level(rp, ir) ==
    IF rp[1] >= 85 * rp[2] /\ ir[1] > 0
    THEN LET v == Floor(<<rp[1] - 60 * rp[2], 10 * rp[2]>>) + 1
         IN  IF v < 5 THEN v ELSE 5
    ELSE IF rp[1] >= 70 * rp[2]
    THEN LET v == Floor(<<rp[1] - 50 * rp[2], 15 * rp[2]>>)
         IN  IF v > 2 THEN v ELSE 2
    ELSE 1

\* C2: for a non-empty record list recommended_level is min(5, floor((rp-60)/10)+1)
\* when rp >= 85 and ir > 0, else max(2, floor((rp-50)/15)) when rp >= 70,
\* else 1, for the profile's recent_performance rp and improvement_rate ir;
\* rp = 90 with ir = 5 gives 4, rp = 72 gives 2 and rp = 50 gives 1.
C2_RecommendedLevel ==
    /\ LevelFor(<<90, 1>>, <<5, 1>>) = 4
    /\ \A ir \in {<<-1, 2>>, <<0, 1>>, <<5, 1>>} :
          LevelFor(<<72, 1>>, ir) = 2 /\ LevelFor(<<50, 1>>, ir) = 1
    /\ (Analyzed /\ records # <<>>) =>
          profile.recommended_level =
              C2_Level(profile.overall_performance.recent_performance,
                       profile.overall_performance.improvement_rate)

\* The top branch is taken (six records, the five latest all 100).
C2_Witness ==
    /\ Analyzed
    /\ N = 6
    /\ profile.overall_performance.improvement_rate[1] > 0
    /\ profile.overall_performance.recent_performance = <<500, 5>>
    /\ profile.recommended_level = 5

-----------------------------------------------------------------------------
(* C5: recent_performance and the five latest records *)

\* Some choice of five records none of which is older than a record left out.
LatestFives ==
    {S \in SUBSET (1..N) :
        /\ Cardinality(S) = 5
        /\ \A i \in S : \A j \in (1..N) \ S :
              records[j].assessment_date <= records[i].assessment_date}

RECURSIVE SumOver(_)
SumOver(S) ==
    IF S = {} THEN 0
    ELSE LET i == CHOOSE i \in S : TRUE
         IN  records[i].score + SumOver(S \ {i})

\* C5: with five or more records, in any input order, recent_performance is
\* the mean score of the five records with the latest assessment_date; with
\* fewer it is the mean of all scores.
C5_RecentByDate ==
    (Analyzed /\ records # <<>>) =>
        LET rp == profile.overall_performance.recent_performance
        IN  IF N >= 5
            THEN \E S \in LatestFives : rp[1] * 5 = SumOver(S) * rp[2]
            ELSE rp[1] * N = SumOver(1..N) * rp[2]

-----------------------------------------------------------------------------
(* C6: improvement_rate *)

\* Position (from 0) of record i when the records are put in date order,
\* records of equal date in input order.
DateRank(i) ==
    Cardinality({j \in 1..N :
        \/ records[j].assessment_date < records[i].assessment_date
        \/ records[j].assessment_date = records[i].assessment_date /\ j < i})

C6_Window == IF N < 5 THEN N ELSE 5
C6_First == SumOver({i \in 1..N : DateRank(i) < C6_Window})
C6_Last == SumOver({i \in 1..N : DateRank(i) >= N - C6_Window})

\* C6: improvement_rate is 0.0 for a single record; for two or more it is
\* (mean of the last 5 by date - mean of the first 5 by date) / max(mean of
\* the first 5, 1), each window holding all records when fewer than 5 exist.
C6_ImprovementRate ==
    (Analyzed /\ records # <<>>) =>
        LET ir == profile.overall_performance.improvement_rate
        IN  IF N = 1 THEN ir[1] = 0 /\ ir[2] # 0
            ELSE /\ ir[2] > 0
                 \* (Last/w - First/w) / max(First/w, 1)
                 \*     = (Last - First) / max(First, w)
                 /\ ir[1] * (IF C6_First > C6_Window THEN C6_First ELSE C6_Window)
                        = (C6_Last - C6_First) * ir[2]

\* Six records given out of date order, with a non-zero rate.
C6_Witness ==
    /\ Analyzed
    /\ N = 6
    /\ \E i \in 1..5 : records[i].assessment_date > records[i + 1].assessment_date
    /\ profile.overall_performance.improvement_rate[1] < 0

-----------------------------------------------------------------------------
(* Specification SpecScale: a few records on assessment scales of 100, 200  *)
(* and 1000 points                                                         *)

MaxScaleRecords == 3

ScaleRecords ==
    {PlainRecord("Math", sc, 100, 1) : sc \in {0, 50, 100}}
        \cup {PlainRecord("Math", 200, 200, 1), PlainRecord("Math", 1000, 1000, 1)}

NextScale ==
    \/ AddRecord(ScaleRecords, MaxScaleRecords)
    \/ Analyze
    \/ Configure({"visual"})
SpecScale == Init /\ [][NextScale]_vars

\* C3: for every well-formed record list (max_score > 0, 0 <= score <=
\* max_score, max_score not only 100) recommended_level is in 1..5, and so is
\* the difficulty_level of the config derived from it.
C3_LevelInRange ==
    (\A i \in 1..N : WellFormed(records[i])) =>
        /\ Analyzed => profile.recommended_level \in 1..5
        /\ pc = "configured" => config.difficulty_level \in 1..5

-----------------------------------------------------------------------------
(* C10: consistency_score *)

\* Sample variance by the two-pass formula: sum (x - mean)^2 / (n - 1)
\*     = sum (n x - S)^2 / (n^2 (n - 1)).
RECURSIVE SumSqDev(_, _)
SumSqDev(S, total) ==
    IF S = {} THEN 0
    ELSE LET i == CHOOSE i \in S : TRUE
         IN  (N * records[i].score - total) * (N * records[i].score - total)
                 + SumSqDev(S \ {i}, total)

C10_Variance == <<SumSqDev(1..N, SumOver(1..N)), N * N * (N - 1)>>

\* C10: for every non-empty record list consistency_score is
\* max(0, 100 - standard deviation of scores) and lies in [0, 100]; for a
\* single record (no standard deviation) it still lies in [0, 100].
C10_Consistency ==
    (Analyzed /\ records # <<>>) =>
        LET c == profile.overall_performance.consistency_score
        IN  IF "value" \in DOMAIN c
            THEN \* a plain number: 0, when 100 - std is not positive or undefined
                 /\ c.value = 0
                 /\ N = 1 \/ C10_Variance[1] >= 100 * 100 * C10_Variance[2]
            ELSE \* 100 - sqrt(v) with 0 <= sqrt(v) <= 100
                 LET v == c.hundred_minus_sqrt_of
                 IN  /\ N > 1
                     /\ v[2] > 0 /\ v[1] >= 0 /\ v[1] <= 100 * 100 * v[2]
                     /\ v[1] * C10_Variance[2] = C10_Variance[1] * v[2]

\* A spread so large that 100 - std is negative, clipped to 0.
C10_WitnessClipped ==
    /\ Analyzed /\ N = 2
    /\ records[1].score = 0 /\ records[2].score = 1000
    /\ profile.overall_performance.consistency_score = [value |-> 0]

-----------------------------------------------------------------------------
(* Specification SpecGaps: up to MaxGapRecords records of two subjects,     *)
(* with and without a topic                                                *)

MaxGapRecords == 3

GapRecords ==
    {Record(sub, topic, sc, 100, NONE, 1, NoNumber, NoNumber, NONE) :
        sub \in {"English", "Math"}, topic \in {NONE, "Grammar"},
        sc \in {40, 60, 78, 85}}

NextGaps ==
    \/ AddRecord(GapRecords, MaxGapRecords)
    \/ Analyze
    \/ Configure({"visual"})
SpecGaps == Init /\ [][NextGaps]_vars

SubjectsGiven == {records[i].subject : i \in 1..N}
RowsOf(sub) == {i \in 1..N : records[i].subject = sub}

\* C4: for every non-empty record list, with or without topics, learning_gaps
\* has exactly one entry for each subject whose mean score is < 70 and none
\* for any other subject; the entry's average_score is the subject's mean and
\* its priority is "high" for a mean < 60 and "medium" otherwise.
C4_GapPerWeakSubject ==
    (Analyzed /\ records # <<>>) =>
        \A sub \in SubjectsGiven :
            LET total == SumOver(RowsOf(sub))
                count == Cardinality(RowsOf(sub))
                gaps == profile.learning_gaps
                entries == {i \in 1..Len(gaps) : gaps[i].subject = sub}
            IN  IF total < 70 * count
                THEN /\ Cardinality(entries) = 1
                     /\ \A i \in entries :
                           /\ gaps[i].average_score[1] * count
                                  = total * gaps[i].average_score[2]
                           /\ gaps[i].priority =
                                  IF total < 60 * count THEN "high" ELSE "medium"
                ELSE entries = {}

-----------------------------------------------------------------------------
(* Specification SpecTrend: a dated history of up to MaxTrendSeed records   *)
(* rising or falling by a fixed step, followed in the list by up to        *)
(* MaxTrendAdd records dated before or after it                            *)

MaxTrendSeed == 8
MaxTrendAdd == 3

Ramp(len, step) ==
    [i \in 1..len |-> PlainRecord("Math", 50 + step * (i - 1), 100, i)]

TrendSeeds == {Ramp(len, step) : len \in 0..MaxTrendSeed, step \in {-5, 0, 2, 5}}

TrendRecords ==
    {PlainRecord("Math", sc, 100, d) : sc \in {10, 90}, d \in {0, 20}}

TrendInputs ==
    {seed \o ext : seed \in TrendSeeds, ext \in SeqsUpTo(TrendRecords, MaxTrendAdd)}

NextTrend == Analyze \/ Configure({"visual"})
SpecTrend == InitFrom(TrendInputs) /\ [][NextTrend]_vars

\* The scores in date order (records of equal date in input order).
ByDate == [k \in 1..N |-> records[CHOOSE i \in 1..N : DateRank(i) = k - 1].score]

\* The claim's classification of a score sequence y: the least-squares slope
\* sum (x - mx)(y - my) / sum (x - mx)^2 over x = 0..n-1, both sums scaled
\* by n^2, against +2 and -2.
C7_Trend(y) ==
    LET n == Len(y)
        sx == SumSeq([k \in 1..n |-> k - 1])
        sy == SumSeq(y)
        cov == SumSeq([k \in 1..n |-> (n * (k - 1) - sx) * (n * y[k] - sy)])
        var == SumSeq([k \in 1..n |-> (n * (k - 1) - sx) * (n * (k - 1) - sx)])
    IN  IF n < 2 THEN "stable"
        ELSE IF cov > 2 * var THEN "improving"
        ELSE IF cov < (-2) * var THEN "declining"
        ELSE "stable"

C7_Last10(y) == IF Len(y) <= 10 THEN y ELSE SubSeq(y, Len(y) - 9, Len(y))

-----------------------------------------------------------------------------
(* Specification SpecRank: up to MaxMathCount Math records of one score and *)
(* up to MaxOtherCount records of one score in each other subject          *)

MaxMathCount == 10
MaxOtherCount == 1

Block(sub, count, sc, first) ==
    [i \in 1..count |-> PlainRecord(sub, sc, 100, first + i)]

RankInputs ==
    {Block("Math", cm, sm, 0) \o Block("English", ce, se, cm)
        \o Block("History", ch, sh, cm + ce) \o Block("Science", cs, ss, cm + ce + ch) :
        cm \in 0..MaxMathCount, sm \in {40, 80, 100},
        ce \in 0..MaxOtherCount, se \in {40, 60, 85},
        ch \in 0..MaxOtherCount, sh \in {40, 60, 85},
        cs \in 0..MaxOtherCount, ss \in {40, 60, 85}}

NextRank == Analyze \/ Configure({"visual"})
SpecRank == InitFrom(RankInputs) /\ [][NextRank]_vars

\* subject mean x ln(record count + 1), for a subject that has records
Weighted(sub) ==
    <<SumOver(RowsOf(sub)) * NpLog(Cardinality(RowsOf(sub)) + 1),
      Cardinality(RowsOf(sub))>>

Listed(list) == {list[i] : i \in 1..Len(list)}

\* C8: strengths lists the (up to three) subjects of highest weighted score
\* = subject mean x ln(record count + 1), in descending order of it, not of
\* the raw mean: mean 80 over 10 records comes before mean 85 over 1 record.
C8_StrengthsByWeight ==
    (Analyzed /\ records # <<>>) =>
        LET strengths == profile.subject_strengths.strengths
        IN  /\ Listed(strengths) \subseteq SubjectsGiven
            /\ Len(strengths) = Cardinality(Listed(strengths))
            /\ Len(strengths) =
                  (IF Cardinality(SubjectsGiven) < 3 THEN Cardinality(SubjectsGiven) ELSE 3)
            /\ \A i, j \in 1..Len(strengths) :
                  i < j => RLe(Weighted(strengths[j]), Weighted(strengths[i]))
            /\ \A sub \in SubjectsGiven \ Listed(strengths) :
                  \A i \in 1..Len(strengths) : RLe(Weighted(sub), Weighted(strengths[i]))

\* Math has mean 80 over 10 records, Science mean 85 over 1 record, and Math
\* is listed first.
C8_Witness ==
    /\ Analyzed
    /\ Cardinality(RowsOf("Math")) = 10 /\ SumOver(RowsOf("Math")) = 800
    /\ Cardinality(RowsOf("Science")) = 1 /\ SumOver(RowsOf("Science")) = 85
    /\ SubjectsGiven = {"Math", "Science"}
    /\ profile.subject_strengths.strengths = <<"Math", "Science">>

\* C9: weaknesses is ordered worst first: when it holds two subjects, the
\* first has the lower weighted score.
C9_WeaknessesWorstFirst ==
    (Analyzed /\ records # <<>>) =>
        LET weaknesses == profile.subject_strengths.weaknesses
        IN  Len(weaknesses) = 2 =>
                RLe(Weighted(weaknesses[1]), Weighted(weaknesses[2]))

-----------------------------------------------------------------------------
(* Specification SpecDifficulty: up to MaxDifficultyRecords records, each    *)
(* with or without a difficulty_level, on 100 points or on 200             *)

MaxDifficultyRecords == 3

DifficultyRecords ==
    {Record("Math", NONE, sc, 100, dl, 1, NoNumber, NoNumber, NONE) :
        sc \in {60, 80}, dl \in {NONE, "easy", "medium", "hard"}}
    \cup {Record("Math", NONE, 150, 200, "very_hard", 1, NoNumber, NoNumber, NONE)}

NextDifficulty ==
    \/ AddRecord(DifficultyRecords, MaxDifficultyRecords)
    \/ Analyze
    \/ Configure({"visual"})
SpecDifficulty == InitCollect /\ [][NextDifficulty]_vars

\* the difficulty buckets of the record list, and the records of one bucket
Buckets == {records[i].difficulty_level : i \in 1..N} \ {NONE}
Bucket(d) == {i \in 1..N : records[i].difficulty_level = d}

\* mean of bucket d >= mean of bucket e
BucketMeanGe(d, e) ==
    SumOver(Bucket(d)) * Cardinality(Bucket(e))
        >= SumOver(Bucket(e)) * Cardinality(Bucket(d))

\* mean of bucket d >= 70
BucketReaches70(d) == SumOver(Bucket(d)) >= 70 * Cardinality(Bucket(d))

\* C11: optimal_difficulty is the difficulty bucket with the highest mean
\* score among the buckets whose mean is >= 70; if no bucket reaches 70 it is
\* the bucket with the highest mean overall; if no record carries a
\* difficulty_level it is "medium".
C11_OptimalDifficulty ==
    (Analyzed /\ records # <<>>) =>
        LET optimal == profile.difficulty_preferences.optimal_difficulty
            good == {d \in Buckets : BucketReaches70(d)}
        IN  IF Buckets = {} THEN optimal = "medium"
            ELSE IF good # {}
            THEN optimal \in good /\ \A d \in good : BucketMeanGe(optimal, d)
            ELSE optimal \in Buckets /\ \A d \in Buckets : BucketMeanGe(optimal, d)

\* Both buckets reach 70 (easy with mean 70, hard with mean 80) and the one
\* chosen is the higher, which is not the first of them.
C11_Witness ==
    /\ Analyzed
    /\ Buckets = {"easy", "hard"}
    /\ BucketReaches70("easy") /\ BucketReaches70("hard")
    /\ ~BucketMeanGe("easy", "hard")
    /\ profile.difficulty_preferences.optimal_difficulty = "hard"

\* the records tagged hard or very_hard
HardRecords == {i \in 1..N : records[i].difficulty_level \in {"hard", "very_hard"}}

\* C12: for every well-formed non-empty record set challenge_tolerance is
\* present and lies in [0, 1]: it is the mean score, as a 0..1 fraction, of
\* the records tagged hard or very_hard, and 0.5 when there is no such
\* record, also when no record carries a difficulty_level.
C12_ChallengeTolerance ==
    (Analyzed /\ records # <<>>) =>
        LET difficulty_preferences == profile.difficulty_preferences
        IN  /\ "challenge_tolerance" \in DOMAIN difficulty_preferences
            /\ LET tolerance == difficulty_preferences.challenge_tolerance
               IN  /\ RLe(RInt(0), tolerance) /\ RLe(tolerance, RInt(1))
                   /\ HardRecords = {} => REq(tolerance, R(1, 2))
                   /\ HardRecords # {} =>
                         tolerance[1] * 100 * Cardinality(HardRecords)
                             = SumOver(HardRecords) * tolerance[2]

-----------------------------------------------------------------------------
(* Specification SpecConfig: up to MaxConfigRecords records, either without *)
(* a time_taken_minutes and with a score around the support thresholds, or *)
(* with a time around the pacing thresholds; the configuration is made     *)
(* with and without a learning_style                                       *)

MaxConfigRecords == 3

ConfigRecords ==
    {PlainRecord("Math", sc, 100, 1) : sc \in {50, 60, 75, 90}}
    \cup {Record("Math", NONE, 80, 100, NONE, 1, NoNumber, t, NONE) :
              t \in {10, 20, 45, 50}}

NextConfig ==
    \/ AddRecord(ConfigRecords, MaxConfigRecords)
    \/ Analyze
    \/ Configure(LearningStyles \cup {NONE})
SpecConfig == InitCollect /\ [][NextConfig]_vars

Configured == pc = "configured"

\* the records that carry a time_taken_minutes, and the sum of their times
Timed == {i \in 1..N : records[i].time_taken_minutes # NoNumber}

RECURSIVE SumTimeOver(_)
SumTimeOver(S) ==
    IF S = {} THEN 0
    ELSE LET i == CHOOSE i \in S : TRUE
         IN  records[i].time_taken_minutes + SumTimeOver(S \ {i})

\* C19: pacing depends only on the average study time t: t < 20 gives fast
\* with 15-minute sessions and break frequency 10, t > 45 gives slow / 60 /
\* 20, and every other value, exactly 20 and exactly 45 included, and an
\* absent average (no record carries a time), gives medium / 30 / 15.
C19_Pacing ==
    Configured =>
        LET n == Cardinality(Timed)
            total == SumTimeOver(Timed)
        IN  config.pacing =
                IF n > 0 /\ total < 20 * n
                THEN [pace |-> "fast", session_length |-> 15, break_frequency |-> 10]
                ELSE IF n > 0 /\ total > 45 * n
                THEN [pace |-> "slow", session_length |-> 60, break_frequency |-> 20]
                ELSE [pace |-> "medium", session_length |-> 30, break_frequency |-> 15]

\* Two timed records that average exactly 45 minutes, paced medium.
C19_Witness ==
    /\ Configured
    /\ Cardinality(Timed) = 2 /\ SumTimeOver(Timed) = 90
    /\ config.pacing.pace = "medium"

\* C20: support_level depends only on the average score a: a < 60 gives
\* high, 60 <= a < 75 medium, a >= 75 low; the default profile of an empty
\* record list (average 50.0) gets high.
C20_SupportLevel ==
    Configured =>
        config.support_level =
            IF N = 0 THEN "high"
            ELSE IF SumOver(1..N) < 60 * N THEN "high"
            ELSE IF SumOver(1..N) < 75 * N THEN "medium"
            ELSE "low"

\* Scores 60 and 90 average exactly 75, and the support level is low.
C20_Witness ==
    /\ Configured
    /\ N = 2 /\ SumOver(1..N) = 150
    /\ config.support_level = "low"

-----------------------------------------------------------------------------
(* Specification SpecTotal: record lists with every subset of the optional  *)
(* fields, of one to MaxTotalSame records, among them lists with a record  *)
(* that has no subject and lists with a malformed score or max_score; the  *)
(* configuration is made from profiles with keys left out                  *)

MaxTotalMixed == 2
MaxTotalSame == 6

OptionalFields == {"topic", "difficulty_level", "time_taken_minutes", "attempts"}

\* A Math record that carries, of the optional fields, exactly those in present.
OptionalRecord(present, score, assessment_date) ==
    Record("Math",
           IF "topic" \in present THEN "Algebra" ELSE NONE,
           score, 100,
           IF "difficulty_level" \in present THEN "hard" ELSE NONE,
           assessment_date,
           IF "attempts" \in present THEN 2 ELSE NoNumber,
           IF "time_taken_minutes" \in present THEN 30 ELSE NoNumber,
           NONE)

\* Records outside the precondition: a negative score, a score above
\* max_score, max_score = 0, and a dict without a subject.
MalformedRecords ==
    {PlainRecord("Math", -5, 100, 1), PlainRecord("Math", 120, 100, 1),
     PlainRecord("Math", 50, 0, 1)}
SubjectlessRecord == PlainRecord(NONE, 60, 100, 1)

TotalRecords ==
    {OptionalRecord(present, 60, 1) : present \in SUBSET OptionalFields}
    \cup {OptionalRecord({}, 40, 2), OptionalRecord(OptionalFields, 40, 2)}
    \cup MalformedRecords \cup {SubjectlessRecord}

TotalInputs ==
    SeqsUpTo(TotalRecords, MaxTotalMixed)
    \cup {[i \in 1..n |-> OptionalRecord(present, 40 + 10 * i, n - i)] :
            n \in 3..MaxTotalSame, present \in SUBSET OptionalFields}

NextTotal == Analyze \/ ConfigureWithout({NONE, "kinesthetic"})
SpecTotal == InitFrom(TotalInputs) /\ [][NextTotal]_vars

\* every record has its required fields and a score within [0, max_score]
AllWellFormed ==
    \A i \in 1..N :
        /\ WellFormed(records[i])
        /\ records[i].subject # NONE
        /\ records[i].assessment_date # NoNumber

\* C13: on one or more well-formed records, whatever optional fields they
\* lack, analyze_academic_history returns a profile and does not raise; and
\* generate_personalization_config returns a configuration for a profile with
\* keys absent.
C13_Total ==
    /\ (pc # "collect" /\ N >= 1 /\ AllWellFormed) =>
          /\ pc # "raised"
          /\ DOMAIN profile =
                {"overall_performance", "subject_strengths", "learning_trends",
                 "difficulty_preferences", "recommended_level", "learning_gaps",
                 "study_patterns"}
    /\ Configured =>
          /\ DOMAIN config =
                {"difficulty_level", "learning_style", "content_preferences",
                 "pacing", "support_level", "motivation_strategy"}
          /\ config.difficulty_level \in Nat
          /\ config.pacing.pace \in {"fast", "medium", "slow"}
          /\ config.support_level \in {"high", "medium", "low"}
          /\ config.motivation_strategy.strategy
                \in {"encouragement", "challenge", "balanced"}

\* One record without any optional field, analyzed, and configured from a
\* profile without its recommended_level (hence the fallback level 3).
C13_Witness ==
    /\ Configured
    /\ N = 1 /\ records[1] = OptionalRecord({}, 60, 1)
    /\ DOMAIN profile.study_patterns = {}
    /\ config.difficulty_level = 3

\* C14: when a record has a negative score, a score above max_score or
\* max_score <= 0, profile computation ends in a validation error and
\* returns no profile.
C14_MalformedRejected ==
    (pc # "collect" /\ \E i \in 1..N : ~WellFormed(records[i])) =>
        /\ pc = "raised"
        /\ profile = Raised("ValidationError")

-----------------------------------------------------------------------------
(* Specifications SpecQuestion and SpecStrategy.  Questions are made of up  *)
(* to MaxQuestionWords phrases (SpecQuestion, one asker) or up to          *)
(* MaxStrategyWords phrases (SpecStrategy, askers with and without a       *)
(* learning_style and a current_level around 70); each phrase is also      *)
(* asked padded to ten and to twenty words                                 *)

MaxQuestionWords == 2
MaxStrategyWords == 1
MaxTechnicalTerms == 4

\* The phrases a question is made of.
Phrases ==
    {<<"W", "h", "a", "t">>,
     <<"h", "o", "w">>,
     <<"w", "h", "y">>,
     <<"e", "x", "a", "m", "p", "l", "e">>,
     <<"s", "h", "o", "w", " ", "m", "e">>,
     <<"S", "h", "o", "w", " ", "M", "e">>,
     <<"i", "n", "s", "t", "a", "n", "c", "e">>,
     <<"s", "o", "l", "v", "e">>,
     <<"c", "o", "m", "p", "a", "r", "e">>,
     <<"i", "t">>}

Blank == <<" ">>

RECURSIVE Sentence(_)
Sentence(phrases) ==
    IF Len(phrases) = 1 THEN phrases[1]
    ELSE phrases[1] \o Blank \o Sentence(Tail(phrases))

\* question followed by k more words
RECURSIVE Padded(_, _)
Padded(question, k) ==
    IF k = 0 THEN question ELSE Padded(question, k - 1) \o Blank \o <<"i", "t">>

\* Sentences of up to words phrases, and each phrase alone padded to at
\* least ten and to at least twenty words.
Questions(words) ==
    {Sentence(phrases) : phrases \in UNION {[1..n -> Phrases] : n \in 1..words}}
    \cup {Padded(phrase, k) : phrase \in Phrases, k \in {9, 19}}

\* The asking student's profile dict, with or without its optional keys.
DoubtProfiles ==
    {style @@ level :
        style \in {EmptyDict} \cup {[learning_style |-> ls] : ls \in LearningStyles},
        level \in {EmptyDict} \cup {[current_level |-> l] : l \in {69, 70}}}

InitDoubt(questions, profiles) ==
    /\ records = <<>>
    /\ profile = NoResult
    /\ config = NoResult
    /\ pc = "collect"
    /\ NoCalls /\ NoServer
    /\ doubt_resolution \in
          {[question |-> question, student_profile |-> student_profile,
            question_analysis |-> NoResult, response_strategy |-> NoResult] :
              question \in questions, student_profile \in profiles}

\* question_analysis = self._analyze_question(question, subject, topic)
AnalyzeQuestion ==
    /\ doubt_resolution # NoResult
    /\ doubt_resolution.question_analysis = NoResult
    /\ \E technical_terms \in 0..MaxTechnicalTerms :
          doubt_resolution' =
              [doubt_resolution EXCEPT
                  !.question_analysis =
                      _analyze_question(doubt_resolution.question, technical_terms)]
    /\ UNCHANGED <<records, profile, config, pc, callvars, servervars>>

\* response_strategy = self._determine_response_strategy(question_analysis,
\*                                                       student_profile)
DetermineStrategy ==
    /\ doubt_resolution # NoResult
    /\ doubt_resolution.question_analysis # NoResult
    /\ doubt_resolution.response_strategy = NoResult
    /\ doubt_resolution' =
          [doubt_resolution EXCEPT
              !.response_strategy =
                  _determine_response_strategy(doubt_resolution.question_analysis,
                                               doubt_resolution.student_profile)]
    /\ UNCHANGED <<records, profile, config, pc, callvars, servervars>>

NextDoubt == AnalyzeQuestion \/ DetermineStrategy
SpecQuestion ==
    InitDoubt(Questions(MaxQuestionWords), {EmptyDict}) /\ [][NextDoubt]_vars
SpecStrategy ==
    InitDoubt(Questions(MaxStrategyWords), DoubtProfiles) /\ [][NextDoubt]_vars

QuestionAnalysed == doubt_resolution.question_analysis # NoResult
StrategyChosen == doubt_resolution.response_strategy # NoResult

\* the asker's current_level, 50 when the profile has none, and learning_style,
\* visual when the profile has none
AskerLevel ==
    IF "current_level" \in DOMAIN doubt_resolution.student_profile
    THEN doubt_resolution.student_profile.current_level ELSE 50
AskerStyle ==
    IF "learning_style" \in DOMAIN doubt_resolution.student_profile
    THEN doubt_resolution.student_profile.learning_style ELSE "visual"

Escalates ==
    doubt_resolution.question_analysis.complexity_level = "complex" /\ AskerLevel < 70

\* The strategy that question_type and learning_style alone call for.
Unescalated ==
    LET question_type == doubt_resolution.question_analysis.question_type
        by_type ==
            [approach |-> IF question_type = "definition" THEN "direct" ELSE "socratic",
             explanation_style |->
                 IF question_type = "procedure" THEN "step_by_step" ELSE "detailed",
             include_examples |-> TRUE,
             use_analogies |-> question_type = "explanation",
             provide_practice |-> AskerStyle = "kinesthetic"]
    IN  IF AskerStyle = "visual" THEN by_type @@ [include_diagrams |-> TRUE]
        ELSE by_type

\* C16: the complexity escalation is applied last and wins: when the question
\* is complex and the asker's current_level is below 70, the strategy has
\* explanation_style step_by_step and use_analogies true whatever the question
\* type and learning style; otherwise the escalation changes nothing.
C16_EscalationWins ==
    StrategyChosen =>
        LET strategy == doubt_resolution.response_strategy
        IN  IF Escalates
            THEN /\ strategy.explanation_style = "step_by_step"
                 /\ strategy.use_analogies = TRUE
                 /\ \A key \in DOMAIN Unescalated \ {"explanation_style", "use_analogies"} :
                       key \in DOMAIN strategy /\ strategy[key] = Unescalated[key]
                 /\ DOMAIN strategy = DOMAIN Unescalated
            ELSE strategy = Unescalated

\* A complex definition question from a student at level 69: the type asked
\* for detailed, the escalation made it step_by_step.
C16_Witness ==
    /\ StrategyChosen
    /\ Escalates
    /\ doubt_resolution.question_analysis.question_type = "definition"
    /\ doubt_resolution.student_profile = [learning_style |-> "auditory", current_level |-> 69]
    /\ doubt_resolution.response_strategy.explanation_style = "step_by_step"

\* C17: without the escalation the strategy is the defaults, overridden by
\* question_type (definition: approach direct, style detailed; procedure:
\* style step_by_step, examples; explanation: approach socratic, analogies;
\* any other type: nothing), then by learning_style (kinesthetic: practice;
\* visual: diagrams; any other: nothing).
C17_StrategyByTypeAndStyle ==
    (StrategyChosen /\ ~Escalates) =>
        LET strategy == doubt_resolution.response_strategy
            question_type == doubt_resolution.question_analysis.question_type
        IN  /\ strategy.approach = (IF question_type = "definition" THEN "direct" ELSE "socratic")
            /\ strategy.explanation_style =
                  (IF question_type = "procedure" THEN "step_by_step" ELSE "detailed")
            /\ strategy.include_examples = TRUE
            /\ strategy.use_analogies = (question_type = "explanation")
            /\ strategy.provide_practice = (AskerStyle = "kinesthetic")
            /\ ("include_diagrams" \in DOMAIN strategy) = (AskerStyle = "visual")
            /\ AskerStyle = "visual" => strategy.include_diagrams = TRUE
            /\ DOMAIN strategy \subseteq
                  {"approach", "explanation_style", "include_examples", "use_analogies",
                   "provide_practice", "include_diagrams"}

\* An example request from an auditory student at level 70, complex but not
\* escalated: the strategy is exactly the defaults.
C17_Witness ==
    /\ StrategyChosen
    /\ doubt_resolution.question_analysis.question_type = "example_request"
    /\ doubt_resolution.question_analysis.complexity_level = "complex"
    /\ doubt_resolution.student_profile = [learning_style |-> "auditory", current_level |-> 70]
    /\ doubt_resolution.response_strategy = DefaultStrategy

\* the question types in priority order, and the keywords of each
TypePriority ==
    <<"definition", "procedure", "explanation", "example_request",
      "problem_solving", "comparison">>
TypeKeywords ==
    <<{<<"w", "h", "a", "t">>, <<"d", "e", "f", "i", "n", "e">>, <<"m", "e", "a", "n", "i", "n", "g">>},
      {<<"h", "o", "w">>, <<"s", "t", "e", "p", "s">>, <<"p", "r", "o", "c", "e", "s", "s">>},
      {<<"w", "h", "y">>, <<"r", "e", "a", "s", "o", "n">>, <<"b", "e", "c", "a", "u", "s", "e">>},
      {<<"e", "x", "a", "m", "p", "l", "e">>, <<"i", "n", "s", "t", "a", "n", "c", "e">>, <<"s", "h", "o", "w", " ", "m", "e">>},
      {<<"s", "o", "l", "v", "e">>, <<"c", "a", "l", "c", "u", "l", "a", "t", "e">>, <<"f", "i", "n", "d">>},
      {<<"d", "i", "f", "f", "e", "r", "e", "n", "c", "e">>, <<"c", "o", "m", "p", "a", "r", "e">>, <<"v", "e", "r", "s", "u", "s">>}>>

\* word occurs in text: text is some prefix, then word, then some suffix
Occurs(word, text) ==
    \E before \in 0..Len(text) :
        /\ before + Len(word) <= Len(text)
        /\ \A i \in 1..Len(word) : text[before + i] = word[i]

\* the priorities of the keyword sets the question matches, in any case of letters
MatchedTypes ==
    {t \in 1..Len(TypePriority) :
        \E word \in TypeKeywords[t] : Occurs(word, Lower(doubt_resolution.question))}

\* C18: question_type is the first type, in the priority order definition,
\* procedure, explanation, example_request, problem_solving, comparison,
\* whose keyword set the question matches; a question matching several sets
\* gets the earliest; it is general_inquiry exactly when no set matches.
C18_FirstMatch ==
    QuestionAnalysed =>
        LET question_type == doubt_resolution.question_analysis.question_type
        IN  /\ MatchedTypes # {} =>
                  /\ question_type \in {TypePriority[t] : t \in MatchedTypes}
                  /\ \A t \in MatchedTypes :
                        \E first \in 1..t :
                            first \in MatchedTypes /\ TypePriority[first] = question_type
            /\ (question_type = "general_inquiry") = (MatchedTypes = {})

\* "why What": the explanation word comes first in the text, the definition
\* set first in the order.
C18_Witness ==
    /\ QuestionAnalysed
    /\ doubt_resolution.question = <<"w", "h", "y", " ", "W", "h", "a", "t">>
    /\ MatchedTypes = {1, 3}
    /\ doubt_resolution.question_analysis.question_type = "definition"

-----------------------------------------------------------------------------
(* Specification SpecCalls: two calls of analyze_academic_history, on one   *)
(* profiler or on two, for one student or for two, run line by line and    *)
(* interleaved in every way.                                               *)
(*                                                                         *)
(* An object of the heap is a list of record dicts or a DataFrame: its     *)
(* rows, and the type of the values under assessment_date, "str" as the    *)
(* caller stores them and "Timestamp" once pd.to_datetime has replaced     *)
(* them.                                                                   *)

MaxCallRecords == 1

Students == {"student_1", "student_2"}
Profilers == {"profiler_1", "profiler_2"}
Calls == {"call_1", "call_2"}

NoObject == [rows |-> <<>>, assessment_date_type |-> NONE]
IdleFrame ==
    [self |-> NONE, academic_records |-> NONE, pc |-> "idle", df |-> NONE,
     partial |-> EmptyDict, result |-> NoResult]

CallRecords == {PlainRecord("Math", 60, 100, 1), PlainRecord("Math", 90, 100, 2)}

\* Every student's record list is an object of its own; the DataFrame of a
\* call, once built, is the object named after the call.
InitCalls ==
    /\ records = <<>>
    /\ profile = NoResult
    /\ config = NoResult
    /\ pc = "collect"
    /\ NoDoubt /\ NoServer
    /\ \E lists \in [Students -> SeqsUpTo(CallRecords, MaxCallRecords)] :
          heap = [o \in Students \cup Calls |->
                    IF o \in Students
                    THEN [rows |-> lists[o], assessment_date_type |-> "str"]
                    ELSE NoObject]
    /\ profilers = [p \in Profilers |->
                      [learning_style_classifier |-> NONE, difficulty_predictor |-> NONE]]
    /\ calls = [c \in Calls |-> IdleFrame]

\* pd.DataFrame(academic_records) puts the data of the list into a new object.
DataFrameAlias(call, academic_records) == academic_records
DataFrame(call, academic_records) == call

\* profiler.analyze_academic_history(academic_records) is called
CallAnalyze(c) ==
    /\ calls[c].pc = "idle"
    /\ \E self \in Profilers, list \in Students :
          calls' = [calls EXCEPT ![c] =
                      [IdleFrame EXCEPT !.self = self, !.academic_records = list,
                                        !.pc = "called"]]
    /\ UNCHANGED <<records, profile, config, pc, heap, profilers, doubt_resolution, servervars>>

\* lines 37-40: the default profile for an empty list, else df = pd.DataFrame(...)
BuildDataFrame(c) ==
    /\ calls[c].pc = "called"
    /\ LET list == calls[c].academic_records
       IN  IF heap[list].rows = <<>>
           THEN /\ calls' = [calls EXCEPT ![c].result = _default_profile,
                                          ![c].pc = "returned"]
                /\ UNCHANGED heap
           ELSE LET df == DataFrame(c, list)
                IN  /\ heap' = [heap EXCEPT ![df] = heap[list]]
                    /\ calls' = [calls EXCEPT ![c].df = df, ![c].pc = "built"]
    /\ UNCHANGED <<records, profile, config, pc, profilers, doubt_resolution, servervars>>

\* lines 43-44: overall_performance and subject_strengths
MeasurePerformance(c) ==
    /\ calls[c].pc = "built"
    /\ LET df == heap[calls[c].df].rows
       IN  IF KeyErrors(df) # {}
           THEN calls' = [calls EXCEPT ![c].result = Raised("KeyError"),
                                       ![c].pc = "raised"]
           ELSE calls' = [calls EXCEPT
                            ![c].partial =
                                [overall_performance |-> _calculate_overall_performance(df),
                                 subject_strengths |-> _identify_subject_strengths(df)],
                            ![c].pc = "measured"]
    /\ UNCHANGED <<records, profile, config, pc, heap, profilers, doubt_resolution, servervars>>

\* line 45: _analyze_learning_trends, whose first statement (line 89) stores
\* the converted dates in the DataFrame it was handed; the sorted frame and
\* its rolling_avg column are local to it
AnalyzeTrends(c) ==
    /\ calls[c].pc = "measured"
    /\ LET df == calls[c].df
       IN  /\ heap' = [heap EXCEPT ![df].assessment_date_type = "Timestamp"]
           /\ calls' = [calls EXCEPT
                          ![c].partial =
                              @ @@ [learning_trends |-> _analyze_learning_trends(heap[df].rows)],
                          ![c].pc = "trended"]
    /\ UNCHANGED <<records, profile, config, pc, profilers, doubt_resolution, servervars>>

\* lines 46-56: the remaining entries, and the return
ReturnProfile(c) ==
    /\ calls[c].pc = "trended"
    /\ LET df == heap[calls[c].df].rows
       IN  calls' = [calls EXCEPT
                       ![c].result =
                           calls[c].partial @@
                           [difficulty_preferences |-> _assess_difficulty_preferences(df),
                            recommended_level |-> _recommend_difficulty_level(df),
                            learning_gaps |-> _identify_learning_gaps(df),
                            study_patterns |-> _analyze_study_patterns(df)],
                       ![c].pc = "returned"]
    /\ UNCHANGED <<records, profile, config, pc, heap, profilers, doubt_resolution, servervars>>

NextCalls ==
    \E c \in Calls :
        \/ CallAnalyze(c)
        \/ BuildDataFrame(c)
        \/ MeasurePerformance(c)
        \/ AnalyzeTrends(c)
        \/ ReturnProfile(c)
SpecCalls == InitCalls /\ [][NextCalls]_vars

\* the record list a call was made on
ListOf(c) == heap[calls[c].academic_records].rows

-----------------------------------------------------------------------------
(* Specification SpecPersonalize: histories of up to MaxPersonalRecords     *)
(* records, falling, flat or rising; the caller builds the student profile *)
(* from the analysis, with or without a learning style and with the        *)
(* learning trends as analyzed, removed or replaced, and keeps it          *)

MaxPersonalRecords == 3

PersonalInputs ==
    {Ramp(len, step) : len \in 0..MaxPersonalRecords, step \in {-5, 0, 5}}

\* The learning styles a profile may name ("reading" is none the code knows),
\* and what the caller does to learning_trends.
PersonalStyles == LearningStyles \cup {NONE, "reading"}
TrendEdits ==
    {"as_analyzed", "no_learning_trends", "no_recent_trend", "insufficient_data"}

\* student_profile = {**analysis, ...}; config =
\* profiler.generate_personalization_config(student_profile)
Personalize(styles, edits) ==
    /\ pc = "analyzed"
    /\ \E style \in styles, edit \in edits :
          LET trends ==
                  IF edit = "as_analyzed" THEN profile
                  ELSE IF edit = "no_learning_trends"
                  THEN [k \in DOMAIN profile \ {"learning_trends"} |-> profile[k]]
                  ELSE IF edit = "no_recent_trend"
                  THEN [learning_trends |->
                           [overall_trend |-> profile.learning_trends.overall_trend]]
                       @@ profile
                  ELSE [learning_trends |-> [recent_trend |-> edit]] @@ profile
              student_profile ==
                  IF style = NONE THEN trends
                  ELSE [learning_style |-> style] @@ trends
          IN  /\ profile' = student_profile
              /\ config' = generate_personalization_config(student_profile)
    /\ pc' = "configured"
    /\ UNCHANGED <<records, callvars, doubt_resolution, servervars>>

NextPersonalize == Analyze \/ Personalize(PersonalStyles, TrendEdits)
SpecPersonalize == InitFrom(PersonalInputs) /\ [][NextPersonalize]_vars

\* the recent_trend the configured profile carries, NONE when it carries none
GivenTrend ==
    IF "learning_trends" \in DOMAIN profile
          /\ "recent_trend" \in DOMAIN profile.learning_trends
    THEN profile.learning_trends.recent_trend ELSE NONE

\* C21: motivation_strategy depends only on recent_trend: declining gives
\* encouragement / small_wins / frequent, improving gives challenge / growth
\* / achievement_based, and stable, any other value or no trend at all gives
\* balanced / consistency / progress_based; a record set whose last ten
\* scores have a slope below -2, configured as analyzed, gets encouragement.
C21_Motivation ==
    Configured =>
        /\ config.motivation_strategy =
              IF GivenTrend = "declining"
              THEN [strategy |-> "encouragement", focus |-> "small_wins",
                    rewards |-> "frequent"]
              ELSE IF GivenTrend = "improving"
              THEN [strategy |-> "challenge", focus |-> "growth",
                    rewards |-> "achievement_based"]
              ELSE [strategy |-> "balanced", focus |-> "consistency",
                    rewards |-> "progress_based"]
        /\ (/\ records # <<>>
            /\ "learning_trends" \in DOMAIN profile
            /\ DOMAIN profile.learning_trends
                  = {"recent_trend", "overall_trend", "volatility",
                     "peak_performance", "lowest_performance"}
            /\ C7_Trend(C7_Last10(ByDate)) = "declining")
              => config.motivation_strategy.strategy = "encouragement"

\* A falling history whose profile reaches the configuration without its
\* recent_trend, only with its declining overall_trend: balanced.
C21_Witness ==
    /\ Configured
    /\ N = 3
    /\ GivenTrend = NONE
    /\ "learning_trends" \in DOMAIN profile
    /\ profile.learning_trends.overall_trend = "declining"
    /\ config.motivation_strategy.strategy = "balanced"

\* the learning_style the configured profile carries, NONE when it carries none
GivenStyle ==
    IF "learning_style" \in DOMAIN profile THEN profile.learning_style ELSE NONE

\* C22: example_types is [visual, diagrams, charts] for learning style
\* visual, [verbal, audio, discussions] for auditory, [hands-on, interactive,
\* practical] for kinesthetic and [practical, visual] in every other case,
\* a profile without a learning style included.
C22_ExampleTypes ==
    Configured =>
        config.content_preferences.example_types =
            IF GivenStyle = "visual" THEN <<"visual", "diagrams", "charts">>
            ELSE IF GivenStyle = "auditory" THEN <<"verbal", "audio", "discussions">>
            ELSE IF GivenStyle = "kinesthetic"
            THEN <<"hands-on", "interactive", "practical">>
            ELSE <<"practical", "visual">>

-----------------------------------------------------------------------------
(* C24: at most five records (specification Spec) *)

\* C24: for every record set of at most 5 records improvement_rate is
\* exactly 0 (the first-5 and the last-5 windows are the same records), the
\* top branch of recommended_level is not taken and recommended_level is at
\* most max(2, floor((recent_performance - 50) / 15)).
C24_FewRecords ==
    (Analyzed /\ N <= 5) =>
        LET ir == profile.overall_performance.improvement_rate
        IN  /\ ir[1] = 0 /\ ir[2] # 0
            /\ IF records = <<>> THEN profile.recommended_level <= 2
               ELSE LET rp == profile.overall_performance.recent_performance
                        mid == Floor(<<rp[1] - 50 * rp[2], 15 * rp[2]>>)
                    IN  profile.recommended_level <= (IF mid > 2 THEN mid ELSE 2)

\* Five records rising from 60 to 100 with a recent performance of 85 or
\* more: no improvement is measured and the level stays 2.
C24_Witness ==
    /\ Analyzed
    /\ N = 5
    /\ \E i, j \in 1..N :
          /\ DateRank(i) = 0 /\ records[i].score = 60
          /\ DateRank(j) = N - 1 /\ records[j].score = 100
    /\ LET rp == profile.overall_performance.recent_performance
       IN  rp[1] >= 85 * rp[2]
    /\ profile.overall_performance.improvement_rate[1] = 0
    /\ profile.recommended_level = 2

-----------------------------------------------------------------------------
(* Specification SpecLevel: every recent performance from 0 to             *)
(* MaxPerformance, measured on one record (no improvement) and on five     *)
(* equal records that follow a record of 0 (improvement) or of 100         *)
(* (decline)                                                               *)

MaxPerformance == 100

LevelInputs ==
    {<<PlainRecord("Math", sc, 100, 1)>> : sc \in 0..MaxPerformance}
    \cup {<<PlainRecord("Math", first, 100, 1)>>
              \o [i \in 1..5 |-> PlainRecord("Math", sc, 100, i + 1)] :
          first \in {0, 100}, sc \in 0..MaxPerformance}

NextLevel == Analyze \/ Configure({"visual"})
SpecLevel == InitFrom(LevelInputs) /\ [][NextLevel]_vars

C25_Rates == {<<-1, 2>>, <<0, 1>>, <<1, 100>>, <<5, 1>>}

\* C25: recommended_level is monotone for recent_performance in 0..100:
\* with the sign of improvement_rate fixed, a higher recent_performance
\* never gives a lower level, and with recent_performance fixed, a positive
\* improvement_rate never gives a lower level than a non-positive one.
C25_Monotone ==
    (Analyzed /\ records # <<>>) =>
        LET rp == profile.overall_performance.recent_performance
            ir == profile.overall_performance.improvement_rate
            level == profile.recommended_level
        IN  /\ \A q \in 0..MaxPerformance : \A rate \in C25_Rates :
                  (rate[1] > 0 <=> ir[1] > 0) =>
                      /\ RLe(rp, RInt(q)) => level <= LevelFor(RInt(q), rate)
                      /\ RLe(RInt(q), rp) => LevelFor(RInt(q), rate) <= level
            /\ \A rate \in C25_Rates :
                  IF ir[1] > 0 THEN LevelFor(rp, rate) <= level
                  ELSE rate[1] > 0 => level <= LevelFor(rp, rate)

\* An improving student at a recent performance of exactly 85: level 3,
\* where the same performance without improvement gives level 2.
C25_Witness ==
    /\ Analyzed
    /\ N = 6
    /\ profile.overall_performance.improvement_rate[1] > 0
    /\ REq(profile.overall_performance.recent_performance, RInt(85))
    /\ profile.recommended_level = 3
    /\ LevelFor(RInt(85), RInt(0)) = 2

-----------------------------------------------------------------------------
(* Specification SpecSubjects: one record for each of up to MaxSubjects     *)
(* subjects, with scores rising, falling or level along the subjects, and  *)
(* possibly a second record of one subject or a record without subject     *)

MaxSubjects == 5

SubjectPool ==
    SubSeq(SubjectOrder, 1, PyMin(MaxSubjects, Len(SubjectOrder)))

SubjectScore(scheme, i) ==
    IF scheme = "rising" THEN 50 + 5 * i
    ELSE IF scheme = "falling" THEN 90 - 5 * i
    ELSE 70

SubjectList(taken, scheme) ==
    LET positions == SelectSeq([i \in 1..Len(SubjectPool) |-> i],
                               LAMBDA i : SubjectPool[i] \in taken)
    IN  [j \in 1..Len(positions) |->
            PlainRecord(SubjectPool[positions[j]],
                        SubjectScore(scheme, positions[j]), 100, j)]

SubjectInputs ==
    {SubjectList(taken, scheme) \o extra :
        taken \in SUBSET {SubjectPool[i] : i \in 1..Len(SubjectPool)},
        scheme \in {"rising", "falling", "level"},
        extra \in {<<>>, <<PlainRecord("Art", 100, 100, 9)>>,
                   <<PlainRecord(NONE, 100, 100, 9)>>}}

NextSubjects == Analyze \/ Configure({"visual"})
SpecSubjects == InitFrom(SubjectInputs) /\ [][NextSubjects]_vars

\* the distinct subjects of the record set (a record may carry none)
C26_Subjects == SubjectsGiven \ {NONE}

\* the subjects listed both as strength and as weakness
C26_Both ==
    Listed(profile.subject_strengths.strengths)
        \cap Listed(profile.subject_strengths.weaknesses)

C26_Counts ==
    LET k == Cardinality(C26_Subjects)
    IN  /\ Len(profile.subject_strengths.strengths) = (IF k < 3 THEN k ELSE 3)
        /\ Len(profile.subject_strengths.weaknesses) = (IF k < 2 THEN k ELSE 2)

\* C26 as stated: with k distinct subjects in the record set strengths holds
\* exactly min(3, k) subjects and weaknesses exactly min(2, k), and some
\* subject is listed in both exactly when k < 5.
C26_Overlap ==
    pc \in {"analyzed", "configured"} =>
        /\ C26_Counts
        /\ C26_Both # {} <=> Cardinality(C26_Subjects) < 5

\* C26, amended: with k distinct subjects in the record set strengths holds
\* exactly min(3, k) subjects and weaknesses exactly min(2, k), and some
\* subject is listed in both exactly when 1 <= k < 5; a record set without
\* any subject (the empty list) has both lists empty.
C26_OverlapFromOne ==
    pc \in {"analyzed", "configured"} =>
        /\ C26_Counts
        /\ C26_Both # {} <=>
              (1 <= Cardinality(C26_Subjects) /\ Cardinality(C26_Subjects) < 5)

\* Four subjects: the third-ranked one is a strength and a weakness; and
\* five subjects exist elsewhere with nothing shared.
C26_Witness ==
    /\ pc = "analyzed"
    /\ Cardinality(C26_Subjects) = 4
    /\ Len(profile.subject_strengths.strengths) = 3
    /\ profile.subject_strengths.strengths[3] = profile.subject_strengths.weaknesses[1]
    /\ Cardinality(C26_Both) = 1

-----------------------------------------------------------------------------
(* C27: the threshold of _find_optimal_difficulty (specification            *)
(* SpecDifficulty)                                                         *)

\* bucket d comes before bucket e in the sorted index of the grouped means
C27_Before(d, e) ==
    \E i, j \in 1..Len(DifficultyOrder) :
        i < j /\ DifficultyOrder[i] = d /\ DifficultyOrder[j] = e

\* C27: the >= 70 threshold never changes the result: whenever some record
\* carries a difficulty_level, optimal_difficulty is the bucket of highest
\* mean score over all buckets (the first of them in index order when
\* several share it), whether or not any bucket reaches 70.
C27_ThresholdIrrelevant ==
    (Analyzed /\ records # <<>> /\ Buckets # {}) =>
        LET optimal == profile.difficulty_preferences.optimal_difficulty
        IN  /\ optimal \in Buckets
            /\ \A d \in Buckets :
                  /\ BucketMeanGe(optimal, d)
                  /\ C27_Before(d, optimal) => ~BucketMeanGe(d, optimal)

\* The threshold splits the buckets (easy stays below 70, hard and medium
\* reach it) and the result is the first of the two highest.
C27_Witness ==
    /\ Analyzed
    /\ Buckets = {"easy", "hard", "medium"}
    /\ ~BucketReaches70("easy")
    /\ BucketReaches70("hard") /\ BucketReaches70("medium")
    /\ BucketMeanGe("medium", "hard")
    /\ profile.difficulty_preferences.optimal_difficulty = "hard"

-----------------------------------------------------------------------------
(* C28: the values a response strategy takes (specification SpecStrategy) *)

\* C28: every strategy _determine_response_strategy returns has
\* include_examples true, approach socratic or direct and explanation_style
\* detailed or step_by_step (guided and brief are never produced); for a
\* profile without current_level, read as 50, every complex question is
\* escalated to step_by_step with analogies.
C28_StrategyValues ==
    StrategyChosen =>
        LET strategy == doubt_resolution.response_strategy
        IN  /\ strategy.include_examples = TRUE
            /\ strategy.approach \in {"socratic", "direct"}
            /\ strategy.explanation_style \in {"detailed", "step_by_step"}
            /\ (/\ "current_level" \notin DOMAIN doubt_resolution.student_profile
                /\ doubt_resolution.question_analysis.complexity_level = "complex")
                  => /\ strategy.explanation_style = "step_by_step"
                     /\ strategy.use_analogies = TRUE

\* A complex procedure question from a kinesthetic student whose profile has
\* no current_level.
C28_Witness ==
    /\ StrategyChosen
    /\ doubt_resolution.student_profile = [learning_style |-> "kinesthetic"]
    /\ doubt_resolution.question_analysis.question_type = "procedure"
    /\ doubt_resolution.question_analysis.complexity_level = "complex"
    /\ doubt_resolution.response_strategy.approach = "socratic"
    /\ doubt_resolution.response_strategy.use_analogies = TRUE

-----------------------------------------------------------------------------
(* C29: "show me" and "how" (specification SpecQuestion) *)

\* the question, lowered, contains keyword
C29_Has(keyword) == Occurs(keyword, Lower(doubt_resolution.question))

\* C29: keywords are matched by case-insensitive substring containment, so a
\* question containing "show me" also matches the procedure keyword "how"
\* and is classified definition or procedure, never example_request;
\* example_request is produced only through "example" or "instance".
C29_ShowMeIsHow ==
    QuestionAnalysed =>
        LET question_type == doubt_resolution.question_analysis.question_type
        IN  /\ C29_Has(<<"s", "h", "o", "w", " ", "m", "e">>) =>
                  /\ C29_Has(<<"h", "o", "w">>)
                  /\ question_type \in {"definition", "procedure"}
            /\ question_type = "example_request" =>
                  \/ C29_Has(<<"e", "x", "a", "m", "p", "l", "e">>)
                  \/ C29_Has(<<"i", "n", "s", "t", "a", "n", "c", "e">>)

\* "Show Me instance": both example keywords, no other word with "how" in
\* it, and the question counts as a procedure question.
C29_Witness ==
    /\ QuestionAnalysed
    /\ doubt_resolution.question =
          <<"S", "h", "o", "w", " ", "M", "e", " ",
            "i", "n", "s", "t", "a", "n", "c", "e">>
    /\ doubt_resolution.question_analysis.question_type = "procedure"

-----------------------------------------------------------------------------
(* The backend modules: src/backend/ai_main.py and src/backend/simple_main.py *)
(*                                                                         *)
(* Every request handler is a coroutine of the one event loop that         *)
(* uvicorn.run(app) starts.  The only await in them, of                    *)
(* analyze_student_performance, awaits a coroutine that never suspends,    *)
(* and the model call is a blocking call: a handler runs from its first    *)
(* line to its return before the loop runs another, so each handler is one *)
(* step.  Texts built by f-strings are kept as records of their parts;     *)
(* timestamps are left out.                                                *)

RAdd(a, b) == <<a[1] * b[2] + b[1] * a[2], a[2] * b[2]>>

RECURSIVE RSum(_)
RSum(s) == IF s = <<>> THEN RInt(0) ELSE RAdd(Head(s), RSum(Tail(s)))

\* round(x, 1) of a non-negative x, in tenths (ties to the even tenth)
RoundTenths(x) ==
    LET twice == (20 * x[1]) \div x[2]
        exact == (20 * x[1]) % x[2] = 0
    IN  IF twice % 2 = 0 THEN twice \div 2
        ELSE IF exact /\ (twice \div 2) % 2 = 0 THEN twice \div 2
        ELSE twice \div 2 + 1

\* the items of s, each once, in the order of their first appearance
RECURSIVE FirstAppearances(_)
FirstAppearances(s) ==
    IF s = <<>> THEN <<>>
    ELSE LET before == FirstAppearances(SubSeq(s, 1, Len(s) - 1))
         IN  IF \E i \in 1..Len(before) : before[i] = s[Len(s)] THEN before
             ELSE Append(before, s[Len(s)])

DefaultOverallLevel == 50
StrengthAverage == 75
WeaknessAverage == 65
HardFrom == 85
MediumFrom == 70
LearningPathLength == 3

EstimatedTime == 30
WorksheetTime == 25

\* record["score"] / record["max_score"] * 100
RecordPercent(record) == R(record.score * 100, record.max_score)

\* ai_main.analyze_student_performance, for a student of students_db
analyze_student_performance(student) ==
    LET academic_history == Get(student, "academic_history", <<>>)
        total_score == ColSum(academic_history, "score")
        total_possible == ColSum(academic_history, "max_score")
        overall_percentage ==
            IF total_possible > 0 THEN R(total_score * 100, total_possible)
            ELSE RInt(DefaultOverallLevel)
        subjects ==
            FirstAppearances([i \in 1..Len(academic_history) |->
                                 academic_history[i].subject])
        scores(subject) ==
            LET rows == SelectSeq(academic_history, LAMBDA r : r.subject = subject)
            IN  [i \in 1..Len(rows) |-> RecordPercent(rows[i])]
        average(subject) == RDiv(RSum(scores(subject)), RInt(Len(scores(subject))))
        strengths ==
            SelectSeq(subjects, LAMBDA su : RLe(RInt(StrengthAverage), average(su)))
        weaknesses ==
            SelectSeq(subjects, LAMBDA su : RLt(average(su), RInt(WeaknessAverage)))
    IN  IF academic_history = <<>>
        THEN [overall_level |-> [tenths |-> 10 * DefaultOverallLevel],
              recommended_difficulty |-> "medium",
              focus_areas |-> <<"Basic concepts">>,
              learning_path |-> <<"Start with fundamentals">>]
        ELSE IF \E i \in 1..Len(academic_history) : academic_history[i].max_score = 0
        THEN Raised("ZeroDivisionError")
        ELSE [overall_level |-> [tenths |-> RoundTenths(overall_percentage)],
              recommended_difficulty |->
                  IF RLe(RInt(HardFrom), overall_percentage) THEN "hard"
                  ELSE IF RLe(RInt(MediumFrom), overall_percentage) THEN "medium"
                  ELSE "easy",
              subject_performance |->
                  [i \in 1..Len(subjects) |->
                      [subject |-> subjects[i], average |-> average(subjects[i])]],
              strengths |-> strengths,
              weaknesses |-> weaknesses,
              focus_areas |->
                  IF weaknesses # <<>> THEN weaknesses ELSE <<"Advanced concepts">>,
              learning_path |->
                  [i \in 1..PyMin(Len(weaknesses), LearningPathLength) |->
                      <<"Focus on ", weaknesses[i]>>]]

\* The student ai_main.py starts with (lines 52-68).
SampleStudent ==
    [student_id |-> "STU001", name |-> "Priya Sharma", grade |-> 8,
     school_id |-> "SCHOOL001", current_level |-> R(151, 2),
     strengths |-> <<"Mathematics", "Science">>,
     weaknesses |-> <<"English Grammar", "History">>,
     learning_style |-> "visual",
     academic_history |->
         <<[subject |-> "Mathematics", topic |-> "Algebra", score |-> 85,
            max_score |-> 100, assessment_date |-> 15, difficulty_level |-> "medium",
            attempts |-> NoNumber, time_taken_minutes |-> NoNumber,
            assessment_type |-> NONE],
           [subject |-> "Science", topic |-> "Photosynthesis", score |-> 78,
            max_score |-> 100, assessment_date |-> 10, difficulty_level |-> "medium",
            attempts |-> NoNumber, time_taken_minutes |-> NoNumber,
            assessment_type |-> NONE],
           [subject |-> "English", topic |-> "Grammar", score |-> 65,
            max_score |-> 100, assessment_date |-> 8, difficulty_level |-> "easy",
            attempts |-> NoNumber, time_taken_minutes |-> NoNumber,
            assessment_type |-> NONE]>>]

\* the two modules' dicts as they are once the modules are loaded
InitServer(keys) ==
    /\ records = <<>>
    /\ profile = NoResult
    /\ config = NoResult
    /\ pc = "collect"
    /\ NoCalls /\ NoDoubt
    /\ students_db = [ai_main |-> ("STU001" :> SampleStudent), simple_main |-> <<>>]
    /\ sessions_db = [ai_main |-> <<>>, simple_main |-> <<>>]
    /\ api_key \in keys
    /\ response = NoResult

\* what a call of openai.ChatCompletion.create can do
ModelOutcomes == {"returns", "raises"}

\* str(n) of a positive integer, as its decimal digits
Digits == <<"0", "1", "2", "3", "4", "5", "6", "7", "8", "9">>
RECURSIVE Decimal(_)
Decimal(n) ==
    IF n < 10 THEN <<Digits[n + 1]>>
    ELSE Append(Decimal(n \div 10), Digits[(n % 10) + 1])

\* Mutant: sessions are numbered from the count itself.
SessionIdFromCount(prefix, db) == <<prefix>> \o Decimal(Cardinality(DOMAIN db))

\* f"{prefix}{len(sessions_db) + 1}"
SessionId(prefix, db) == <<prefix>> \o Decimal(Cardinality(DOMAIN db) + 1)

\* HTTPException(status_code=404, detail="Student not found")
NotFound(handler) ==
    [handler |-> handler, status_code |-> 404, detail |-> "Student not found",
     model_call |-> "not_called"]
\* an exception no handler code catches: the framework answers 500
ServerError(handler, exception, model_call) ==
    [handler |-> handler, status_code |-> 500, exception |-> exception,
     model_call |-> model_call]
Ok(handler, body, model_call) ==
    [handler |-> handler, status_code |-> 200, body |-> body,
     model_call |-> model_call]

\* What the model call did during a request: it is made only under
\* `if openai.api_key` (and, for a doubt, a non-empty question).
ModelCall(key, asked, outcome) ==
    IF key # NONE /\ asked THEN outcome ELSE "not_called"

\* Mutant: the except branch raises the failure again.
LessonContentReraising(key, outcome, student, analysis, subject, topic) ==
    IF key # NONE
    THEN IF outcome = "raises" THEN Raised("OpenAIError")
         ELSE [by |-> "model"]
    ELSE [by |-> "template", topic |-> topic, subject |-> subject,
          learning_style |-> student.learning_style,
          overall_level |-> Get(analysis, "overall_level", [tenths |-> 500])]

\* ai_content of start_ai_learning_session (lines 216-252)
LessonContent(key, outcome, student, analysis, subject, topic) ==
    IF key # NONE
    THEN IF outcome = "raises" THEN [by |-> "fallback", topic |-> topic, subject |-> subject]
         ELSE [by |-> "model"]
    ELSE [by |-> "template", topic |-> topic, subject |-> subject,
          learning_style |-> student.learning_style,
          overall_level |-> Get(analysis, "overall_level", [tenths |-> 500])]

\* ai_main.start_ai_learning_session
start_ai_learning_session(student_ids, outcomes, cap) ==
    /\ students_db # <<>>
    /\ Cardinality(DOMAIN sessions_db.ai_main) < cap
    /\ \E student_id \in student_ids, outcome \in outcomes :
          LET handler == "start_ai_learning_session"
              subject == "Mathematics"
              topic == "Algebra"
          IN  IF student_id \notin DOMAIN students_db.ai_main
              THEN /\ response' = NotFound(handler)
                   /\ UNCHANGED sessions_db
              ELSE LET student == students_db.ai_main[student_id]
                       analysis == analyze_student_performance(student)
                       ai_content == LessonContent(api_key, outcome, student, analysis,
                                                   subject, topic)
                       session_id == SessionId("ai_session_", sessions_db.ai_main)
                       session ==
                           [session_id |-> session_id,
                            student_id |-> student_id,
                            subject |-> subject,
                            topic |-> topic,
                            progress |-> 0,
                            status |-> "in_progress",
                            ai_analysis |-> analysis,
                            personalized_content |->
                                [difficulty_level |->
                                     Get(analysis, "recommended_difficulty", "medium"),
                                 learning_style_adaptation |->
                                     Get(student, "learning_style", "visual"),
                                 ai_generated_content |-> ai_content,
                                 focus_areas |-> Get(analysis, "focus_areas", <<>>),
                                 estimated_time |-> EstimatedTime,
                                 content_blocks |->
                                     <<[type |-> "ai_explanation",
                                        title |-> <<"Personalized Introduction to ", topic>>,
                                        content |-> [first_200_of |-> ai_content]],
                                       [type |-> "adaptive_practice",
                                        title |-> "Practice Activities",
                                        content |->
                                            [style |-> Get(student, "learning_style",
                                                           "visual")]]>>]]
                   IN  IF "raised" \in DOMAIN analysis
                       THEN /\ response' =
                                   ServerError(handler, analysis.raised, "not_called")
                            /\ UNCHANGED sessions_db
                       ELSE IF "raised" \in DOMAIN ai_content
                       THEN /\ response' =
                                   ServerError(handler, ai_content.raised,
                                               ModelCall(api_key, TRUE, outcome))
                            /\ UNCHANGED sessions_db
                       ELSE /\ sessions_db' =
                                   [sessions_db EXCEPT
                                       !.ai_main = (session_id :> session) @@ @]
                            /\ response' =
                                   Ok(handler, session, ModelCall(api_key, TRUE, outcome))
    /\ UNCHANGED <<records, profile, config, pc, callvars, doubt_resolution,
                   students_db, api_key>>

\* ai_questions of generate_ai_worksheet (lines 302-333)
WorksheetContent(key, outcome, subject, topic) ==
    IF key # NONE
    THEN IF outcome = "raises"
         THEN [by |-> "fallback", topic |-> topic, subject |-> subject]
         ELSE [by |-> "model"]
    ELSE [by |-> "template"]

\* ai_main.generate_ai_worksheet
generate_ai_worksheet(student_ids, outcomes) ==
    /\ students_db # <<>>
    /\ \E student_id \in student_ids, outcome \in outcomes :
          LET handler == "generate_ai_worksheet"
              subject == "Mathematics"
              topic == "Algebra"
          IN  IF student_id \notin DOMAIN students_db.ai_main
              THEN response' = NotFound(handler)
              ELSE LET student == students_db.ai_main[student_id]
                       analysis == analyze_student_performance(student)
                       ai_questions == WorksheetContent(api_key, outcome, subject, topic)
                       difficulty == Get(analysis, "recommended_difficulty", "medium")
                       worksheet ==
                           [title |-> <<"AI-Personalized ", subject, " - ", topic,
                                        " Worksheet">>,
                            student_id |-> student_id,
                            difficulty_level |-> difficulty,
                            estimated_time_minutes |-> WorksheetTime,
                            ai_generated |-> TRUE,
                            personalization |->
                                [adapted_for_level |->
                                     Get(analysis, "overall_level", [tenths |-> 500]),
                                 learning_style |->
                                     Get(student, "learning_style", "visual"),
                                 focus_areas |-> Get(analysis, "focus_areas", <<>>)],
                            ai_content |-> ai_questions,
                            problems |->
                                <<[id |-> 1, type |-> "multiple_choice",
                                   correct_answer |-> "B", difficulty |-> difficulty],
                                  [id |-> 2, type |-> "short_answer",
                                   expected_length |-> "3-4 sentences",
                                   difficulty |-> difficulty]>>,
                            learning_objectives |->
                                <<<<"Master key concepts of ", topic>>,
                                  <<"Apply ", topic, " knowledge to solve problems">>,
                                  <<"Build confidence in ",
                                    Get(analysis, "focus_areas", <<subject>>)>>>>]
                   IN  IF "raised" \in DOMAIN analysis
                       THEN response' = ServerError(handler, analysis.raised, "not_called")
                       ELSE response' =
                                Ok(handler, worksheet, ModelCall(api_key, TRUE, outcome))
    /\ UNCHANGED <<records, profile, config, pc, callvars, doubt_resolution,
                   students_db, sessions_db, api_key>>

\* ai_response and confidence_score of ai_doubt_clearing (lines 391-433)
DoubtAnswer(key, outcome, question, subject, topic) ==
    IF key # NONE /\ question # ""
    THEN IF outcome = "raises"
         THEN [ai_response |-> [by |-> "fallback", topic |-> topic, subject |-> subject],
               confidence_score |-> R(6, 10)]
         ELSE [ai_response |-> [by |-> "model"], confidence_score |-> R(9, 10)]
    ELSE [ai_response |-> [by |-> "template", topic |-> topic, subject |-> subject],
          confidence_score |-> R(7, 10)]

\* ai_main.ai_doubt_clearing
ai_doubt_clearing(student_ids, outcomes, questions) ==
    /\ students_db # <<>>
    /\ \E student_id \in student_ids, outcome \in outcomes, question \in questions :
          LET handler == "ai_doubt_clearing"
              subject == "Mathematics"
              topic == "Algebra"
          IN  IF student_id \notin DOMAIN students_db.ai_main
              THEN response' = NotFound(handler)
              ELSE LET student == students_db.ai_main[student_id]
                       analysis == analyze_student_performance(student)
                       answer == DoubtAnswer(api_key, outcome, question, subject, topic)
                       strengths == Get(student, "strengths", <<>>)
                       resolution ==
                           [student_id |-> student_id,
                            question |-> question,
                            subject |-> subject,
                            topic |-> topic,
                            ai_response |->
                                [type |-> "personalized_explanation",
                                 content |-> answer.ai_response,
                                 learning_level |->
                                     Get(analysis, "overall_level", [tenths |-> 500]),
                                 adapted_for_style |->
                                     Get(student, "learning_style", "visual"),
                                 follow_up_suggestions |->
                                     <<[connects_to |->
                                           IF strengths # <<>> THEN strengths[1]
                                           ELSE "other subjects"],
                                       [practice |-> topic],
                                       [visual |->
                                           Get(student, "learning_style", NONE) = "visual"]>>],
                            confidence_score |-> answer.confidence_score,
                            personalization_applied |->
                                [difficulty_adjusted |-> TRUE,
                                 learning_style_considered |-> TRUE,
                                 student_strengths_referenced |-> strengths # <<>>,
                                 encouraging_tone |-> TRUE]]
                   IN  IF "raised" \in DOMAIN analysis
                       THEN response' = ServerError(handler, analysis.raised, "not_called")
                       ELSE response' =
                                Ok(handler, resolution,
                                   ModelCall(api_key, question # "", outcome))
    /\ UNCHANGED <<records, profile, config, pc, callvars, doubt_resolution,
                   students_db, sessions_db, api_key>>

\* ai_main.create_student: the student is stored, then analyzed
create_student(students) ==
    /\ students_db # <<>>
    /\ \E student \in students :
          LET analysis == analyze_student_performance(student)
          IN  /\ students_db' =
                     [students_db EXCEPT !.ai_main = (student.student_id :> student) @@ @]
              /\ response' =
                     IF "raised" \in DOMAIN analysis
                     THEN ServerError("create_student", analysis.raised, "not_called")
                     ELSE Ok("create_student",
                             [student_id |-> student.student_id, status |-> "created",
                              ai_analysis |-> analysis],
                             "not_called")
    /\ UNCHANGED <<records, profile, config, pc, callvars, doubt_resolution,
                   sessions_db, api_key>>

\* simple_main.start_learning_session
start_learning_session(student_ids, cap) ==
    /\ students_db # <<>>
    /\ Cardinality(DOMAIN sessions_db.simple_main) < cap
    /\ \E student_id \in student_ids :
          LET session_id == SessionId("session_", sessions_db.simple_main)
              session ==
                  [session_id |-> session_id,
                   student_id |-> student_id,
                   subject |-> "Mathematics",
                   topic |-> "Algebra",
                   progress |-> 0,
                   status |-> "in_progress",
                   personalized_content |->
                       [difficulty_level |-> 3,
                        learning_style_adaptation |-> "visual",
                        content_blocks |->
                            <<[type |-> "explanation",
                               title |-> <<"Introduction to ", "Algebra">>],
                              [type |-> "example", title |-> "Practical Example"]>>]]
          IN  /\ sessions_db' =
                     [sessions_db EXCEPT !.simple_main = (session_id :> session) @@ @]
              /\ response' = Ok("start_learning_session", session, "not_called")
    /\ UNCHANGED <<records, profile, config, pc, callvars, doubt_resolution,
                   students_db, api_key>>

-----------------------------------------------------------------------------
(* src/ml-models/content_generation/worksheet_generator.py                  *)

\* WorksheetGenerator._parse_ai_response and _generate_from_template: what a
\* question made from the model's answer, or taken from the templates, holds.
_parse_ai_response(content) == [source |-> "model", parsed |-> content]
_generate_from_template(subject, topic, question_type, difficulty_level) ==
    [source |-> "template", template_for |-> <<subject, topic, question_type,
                                                difficulty_level>>]

\* question_data of _generate_single_question (lines 123-141): the model's
\* answer parsed, or the template when the call or the parsing raises
QuestionData(outcome, subject, topic, question_type, difficulty_level) ==
    IF outcome = "returns" THEN _parse_ai_response("json")
    ELSE _generate_from_template(subject, topic, question_type, difficulty_level)

QuestionTypes == {"multiple_choice", "short_answer", "problem_solving"}
QuestionLevels == {3}

\* WorksheetGenerator._generate_single_question
_generate_single_question(outcomes) ==
    /\ students_db # <<>>
    /\ \E outcome \in outcomes, question_type \in QuestionTypes,
          difficulty_level \in QuestionLevels, question_number \in {1} :
          LET subject == "Mathematics"
              topic == "Algebra"
              question_data ==
                  QuestionData(outcome, subject, topic, question_type, difficulty_level)
              handler == "_generate_single_question"
          IN  response' =
                  IF "raised" \in DOMAIN question_data
                  THEN ServerError(handler, question_data.raised, outcome)
                  ELSE Ok(handler,
                          [id |-> question_number,
                           subject |-> subject,
                           topic |-> topic,
                           difficulty_level |-> difficulty_level,
                           question_type |-> question_type] @@ question_data,
                          outcome)
    /\ UNCHANGED <<records, profile, config, pc, callvars, doubt_resolution,
                   students_db, sessions_db, api_key>>

-----------------------------------------------------------------------------
(* Specification SpecServer: requests to ai_main with and without an API    *)
(* key, for the sample student, for a student created meanwhile and for an *)
(* unknown one; the model call returns or raises                           *)

MaxServerSessions == 2

\* the request bodies of POST /api/students
NewStudents ==
    {[student_id |-> "STU002", name |-> "Ravi", grade |-> 7,
      school_id |-> "SCHOOL001", current_level |-> R(50, 1),
      strengths |-> <<>>, weaknesses |-> <<>>, learning_style |-> "auditory",
      academic_history |-> history] :
        history \in {<<>>,
                     <<[subject |-> "Mathematics", score |-> 40, max_score |-> 100]>>,
                     <<[subject |-> "Mathematics", score |-> 0, max_score |-> 0]>>}}

StudentIds == {"STU001", "STU002"}

NextServer ==
    \/ create_student(NewStudents)
    \/ start_ai_learning_session(StudentIds, ModelOutcomes, MaxServerSessions)
    \/ generate_ai_worksheet(StudentIds, ModelOutcomes)
    \/ ai_doubt_clearing(StudentIds, ModelOutcomes, {"", "Why?"})
    \/ _generate_single_question(ModelOutcomes \cup {"unparsable"})
SpecServer == InitServer({NONE, "sk-key"}) /\ [][NextServer]_vars

\* C23: a failure of the generative-model call never escapes: when the call
\* raises, _generate_single_question returns the template question, and the
\* session-start, worksheet and doubt handlers of ai_main answer 200 with
\* their fallback content; the session is stored all the same; the doubt
\* answer has confidence_score 0.6, against 0.9 when the call succeeds and
\* 0.7 when no model is configured.
C23_FailureContained ==
    response # NoResult =>
        /\ response.model_call = "raises" =>
              /\ response.status_code = 200
              /\ response.handler = "_generate_single_question" =>
                    response.body.source = "template"
              /\ response.handler = "start_ai_learning_session" =>
                    /\ response.body.personalized_content.ai_generated_content.by
                          = "fallback"
                    /\ response.body.session_id \in DOMAIN sessions_db.ai_main
                    /\ sessions_db.ai_main[response.body.session_id] = response.body
              /\ response.handler = "generate_ai_worksheet" =>
                    response.body.ai_content.by = "fallback"
              /\ response.handler = "ai_doubt_clearing" =>
                    /\ response.body.ai_response.content.by = "fallback"
                    /\ response.body.confidence_score = <<6, 10>>
        /\ (response.handler = "ai_doubt_clearing" /\ response.status_code = 200) =>
              /\ response.model_call = "returns" =>
                    response.body.confidence_score = <<9, 10>>
              /\ api_key = NONE => response.body.confidence_score = <<7, 10>>

\* A second session started while the model call raises: stored under
\* ai_session_2 with the fallback lesson.
C23_Witness ==
    /\ response # NoResult
    /\ response.handler = "start_ai_learning_session"
    /\ response.model_call = "raises"
    /\ response.status_code = 200
    /\ response.body.session_id = <<"ai_session_", "2">>
    /\ sessions_db.ai_main[<<"ai_session_", "2">>]
          .personalized_content.ai_generated_content.by = "fallback"

-----------------------------------------------------------------------------
(* Specification SpecSessions: up to MaxSessions session starts in ai_main  *)
(* (known and unknown students, the model call returning or raising) and   *)
(* up to MaxSimpleSessions in simple_main, in any order                    *)

MaxSessions == 10
MaxSimpleSessions == 2

NextSessions ==
    \/ start_ai_learning_session({"STU001", "STU404", NONE}, ModelOutcomes, MaxSessions)
    \/ start_learning_session({"STU001"}, MaxSimpleSessions)
SpecSessions == InitServer({"sk-key"}) /\ [][NextSessions]_vars

\* the key the i-th session of a module is expected under (i < 100)
C30_Key(prefix, i) ==
    LET digit(d) == SubSeq(<<"0", "1", "2", "3", "4", "5", "6", "7", "8", "9">>,
                           d + 1, d + 1)
    IN  <<prefix>> \o (IF i < 10 THEN digit(i) ELSE digit(i \div 10) \o digit(i % 10))

C30_Prefix == [ai_main |-> "ai_session_", simple_main |-> "session_"]
C30_Handler ==
    [ai_main |-> "start_ai_learning_session", simple_main |-> "start_learning_session"]

\* One step of a backend module: a successful start adds exactly the next
\* key, anything else leaves the sessions alone.
C30_Step(app) ==
    LET old == sessions_db[app]
        new == sessions_db'[app]
        n == Cardinality(DOMAIN old)
        started == response'.handler = C30_Handler[app] /\ response'.status_code = 200
    IN  /\ IF started
           THEN /\ DOMAIN new = DOMAIN old \cup {C30_Key(C30_Prefix[app], n + 1)}
                /\ C30_Key(C30_Prefix[app], n + 1) \notin DOMAIN old
                /\ new[C30_Key(C30_Prefix[app], n + 1)] = response'.body
           ELSE new = old
        /\ \A key \in DOMAIN old : new[key] = old[key]
        /\ \A key \in DOMAIN new : new[key].session_id = key
        /\ DOMAIN new =
              {C30_Key(C30_Prefix[app], i) : i \in 1..Cardinality(DOMAIN new)}

\* C30: session ids stay unique under any sequence of session-start
\* requests: after n successful starts sessions_db holds exactly n sessions
\* under the keys <prefix>1 .. <prefix>n (ai_session_ in ai_main, session_ in
\* simple_main), each session's session_id is its key, and none is ever
\* overwritten or removed; a start for an unknown student_id in ai_main is
\* answered 404 and leaves sessions_db and students_db as they were.
C30_UniqueSessionIds ==
    [][/\ C30_Step("ai_main")
       /\ C30_Step("simple_main")
       /\ response'.status_code = 404 =>
              sessions_db' = sessions_db /\ students_db' = students_db]_vars

\* Ten sessions in ai_main, started with and without a failing model call,
\* the tenth just now and under ai_session_10.
C30_Witness ==
    /\ Cardinality(DOMAIN sessions_db.ai_main) = 10
    /\ <<"ai_session_", "1", "0">> \in DOMAIN sessions_db.ai_main
    /\ \E j, k \in DOMAIN sessions_db.ai_main :
          /\ sessions_db.ai_main[j].personalized_content.ai_generated_content.by
                = "fallback"
          /\ sessions_db.ai_main[k].personalized_content.ai_generated_content.by
                = "model"
    /\ Cardinality(DOMAIN sessions_db.simple_main) = 2
    /\ response.handler = "start_ai_learning_session"
    /\ response.status_code = 200
    /\ response.body.session_id = <<"ai_session_", "1", "0">>

====
